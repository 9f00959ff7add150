----------------------------- MODULE PageProofs -----------------------------
(***************************************************************************)
(* Proofs about Page, for any accounts and any number of clicks and        *)
(* faults: its five invariants.                                            *)
(*                                                                         *)
(* The invariant has a part for the wallet, one for the pool and one for   *)
(* the two forms.  A part depends on the calls of its own functions only,  *)
(* so a step of another part leaves it alone (SameCalls).                  *)
(***************************************************************************)
EXTENDS Page, Sums, TLAPS

-----------------------------------------------------------------------------
(***************************************************************************)
(* Bags of calls, and how many calls of a function one holds.              *)
(***************************************************************************)

Fns == {"connect", "refresh", "disconnect", "fetch", "init", "deposit", "withdraw"}

IsCalls(b) ==
    /\ b = [c \in DOMAIN b |-> b[c]]
    /\ IsFiniteSet(DOMAIN b)
    /\ \A c \in DOMAIN b : b[c] \in Nat \ {0}

Of(b, fn) == {c \in DOMAIN b : c.fn = fn}

Num(b, fn) == SumFunctionOnSet(b, Of(b, fn))

\* The two bags hold the same calls of a function, and of every function but g.
SameIn(n, b, fn) == Of(n, fn) = Of(b, fn) /\ Num(n, fn) = Num(b, fn)

OthersSame(n, b, g) == \A fn \in Fns : fn # g => SameIn(n, b, fn)

LEMMA OfIsFinite ==
    ASSUME NEW b, IsCalls(b), NEW fn
    PROVE  /\ IsFiniteSet(Of(b, fn))
           /\ \A c \in Of(b, fn) : b[c] \in Nat \ {0}
           /\ \A c \in Of(b, fn) : b[c] \in Nat
           /\ \A c \in Of(b, fn) : b[c] \in Int
<1>1. IsFiniteSet(DOMAIN b) /\ Of(b, fn) \subseteq DOMAIN b
    BY DEF IsCalls, Of
<1>2. IsFiniteSet(Of(b, fn))
    BY <1>1, FS_Subset
<1>. QED
    BY <1>2 DEF IsCalls, Of

LEMMA NumIsNat ==
    ASSUME NEW b, IsCalls(b), NEW fn
    PROVE  Num(b, fn) \in Nat
BY OfIsFinite, SumNat DEF Num

\* None is counted only if there is none, and one only if there are no two.
LEMMA NumIsFew ==
    ASSUME NEW b, IsCalls(b), NEW fn
    PROVE  /\ Num(b, fn) = 0 => Of(b, fn) = {}
           /\ Num(b, fn) = 1 => \A c, d \in Of(b, fn) : c = d
<1>1. ASSUME NEW c \in Of(b, fn)
      PROVE  /\ b[c] \in Nat \ {0}
             /\ Num(b, fn) = b[c] + SumFunctionOnSet(b, Of(b, fn) \ {c})
             /\ SumFunctionOnSet(b, Of(b, fn) \ {c}) \in Nat
    <2>1. Num(b, fn) = b[c] + SumFunctionOnSet(b, Of(b, fn) \ {c})
        BY OfIsFinite, SumTakes DEF Num
    <2>2. IsFiniteSet(Of(b, fn) \ {c})
        BY OfIsFinite, FS_Subset
    <2>3. SumFunctionOnSet(b, Of(b, fn) \ {c}) \in Nat
        BY <2>2, OfIsFinite, SumNat
    <2>. QED
        BY <2>1, <2>3, OfIsFinite
<1>2. ASSUME Num(b, fn) = 0, NEW c \in Of(b, fn)
      PROVE  FALSE
    <2>1. b[c] \in Nat \ {0} /\ SumFunctionOnSet(b, Of(b, fn) \ {c}) \in Nat
        BY <1>1
    <2>2. Num(b, fn) = b[c] + SumFunctionOnSet(b, Of(b, fn) \ {c})
        BY <1>1
    <2>. QED
        BY <1>2, <2>1, <2>2
<1>3. ASSUME Num(b, fn) = 1, NEW c \in Of(b, fn), NEW d \in Of(b, fn), c # d
      PROVE  FALSE
    <2>1. IsFiniteSet(Of(b, fn) \ {c}) /\ d \in Of(b, fn) \ {c}
        BY <1>3, OfIsFinite, FS_Subset
    <2>2. b[d] <= SumFunctionOnSet(b, Of(b, fn) \ {c})
        BY <2>1, OfIsFinite, SumBounds
    <2>3. b[d] \in Nat \ {0}
        BY OfIsFinite
    <2>. QED
        BY <1>1, <1>3, <2>2, <2>3
<1>. QED
    BY <1>2, <1>3

\* A bag that is added to another one changes the count of its own functions.
LEMMA CallsAdded ==
    ASSUME NEW b, IsCalls(b), NEW m, IsCalls(m), NEW n, n = b (+) m
    PROVE  /\ IsCalls(n)
           /\ DOMAIN n = DOMAIN b \cup DOMAIN m
           /\ \A fn \in Fns : Of(m, fn) = {} => SameIn(n, b, fn)
<1>1. /\ DOMAIN n = DOMAIN b \cup DOMAIN m
      /\ n = [c \in DOMAIN n |-> n[c]]
      /\ \A c \in DOMAIN n : n[c] = (IF c \in DOMAIN b THEN b[c] ELSE 0)
                                    + (IF c \in DOMAIN m THEN m[c] ELSE 0)
    BY DEF (+)
<1>2. IsCalls(n)
    <2>1. IsFiniteSet(DOMAIN n)
        <3>1. IsFiniteSet(DOMAIN b) /\ IsFiniteSet(DOMAIN m)
            BY DEF IsCalls
        <3>. QED
            BY <1>1, <3>1, FS_Union
    <2>2. \A c \in DOMAIN n : n[c] \in Nat \ {0}
        BY <1>1 DEF IsCalls
    <2>. QED
        BY <1>1, <2>1, <2>2 DEF IsCalls
<1>3. ASSUME NEW fn \in Fns, Of(m, fn) = {}
      PROVE  SameIn(n, b, fn)
    <2>1. Of(n, fn) = Of(b, fn)
        BY <1>1, <1>3 DEF Of
    <2>2. \A c \in Of(b, fn) : n[c] = b[c]
        BY <1>1, <1>3 DEF Of, IsCalls
    <2>3. SumFunctionOnSet(n, Of(b, fn)) = SumFunctionOnSet(b, Of(b, fn))
        BY <2>2, OfIsFinite, SumAgree
    <2>. QED
        BY <2>1, <2>3 DEF Num, SameIn
<1>. QED
    BY <1>1, <1>2, <1>3

LEMMA OneIsCalls ==
    ASSUME NEW c
    PROVE  IsCalls(One(c)) /\ DOMAIN One(c) = {c} /\ IsCalls(EmptyBag) /\ DOMAIN EmptyBag = {}
BY FS_Singleton, FS_EmptySet DEF IsCalls, One, EmptyBag, SetToBag

LEMMA CallStarts ==
    ASSUME NEW b, IsCalls(b), NEW c, NEW n, n = b (+) One(c)
    PROVE  /\ IsCalls(n)
           /\ DOMAIN n = DOMAIN b \cup {c}
           /\ Num(n, c.fn) = Num(b, c.fn) + 1
           /\ OthersSame(n, b, c.fn)
<1>. DEFINE fn == c.fn
            S == Of(b, fn)
            m == One(c)
<1>1. /\ IsCalls(m) /\ DOMAIN m = {c} /\ n = b (+) m
      /\ \A f \in Fns : c.fn # f => Of(m, f) = {}
    BY OneIsCalls DEF Of
<1>. HIDE DEF m, fn, S
<1>2. /\ IsCalls(n)
      /\ DOMAIN n = DOMAIN b \cup DOMAIN m
      /\ \A f \in Fns : Of(m, f) = {} => SameIn(n, b, f)
    BY <1>1, CallsAdded
<1>3. IsCalls(n) /\ DOMAIN n = DOMAIN b \cup {c}
    BY <1>1, <1>2
<1>4. \A f \in Fns : c.fn # f => SameIn(n, b, f)
    BY <1>1, <1>2
<1>. USE DEF fn, S
<1>5. /\ \A d \in DOMAIN b : d # c => n[d] = b[d]
      /\ n[c] = IF c \in DOMAIN b THEN b[c] + 1 ELSE 1
    BY DEF m, IsCalls, One, SetToBag, (+)
<1>6. Num(n, fn) = Num(b, fn) + 1
    <2>1. CASE c \in DOMAIN b
        <3>1. c \in S /\ Of(n, fn) = S /\ n[c] = b[c] + 1
            BY <1>3, <1>5, <2>1 DEF Of
        <3>2. \A d \in S \ {c} : n[d] = b[d]
            BY <1>5 DEF Of
        <3>3. SumFunctionOnSet(n, S) = SumFunctionOnSet(b, S) + 1
            <4>. HIDE DEF fn
            <4>. QED
                BY <3>1, <3>2, OfIsFinite, SumBump
        <3>. QED
            BY <3>1, <3>3 DEF Num
    <2>2. CASE c \notin DOMAIN b
        <3>1. c \notin S /\ Of(n, fn) = S \cup {c} /\ n[c] = 1
            BY <1>3, <1>5, <2>2 DEF Of
        <3>2. \A d \in S : n[d] = b[d]
            BY <1>5, <3>1 DEF Of
        <3>3. \A d \in S \cup {c} : n[d] \in Int
            BY <1>3, <3>1, OfIsFinite
        <3>. HIDE DEF fn
        <3>4. SumFunctionOnSet(n, S \cup {c}) = SumFunctionOnSet(n, S) + n[c]
            BY <3>1, <3>3, OfIsFinite, SumAdd
        <3>5. SumFunctionOnSet(n, S) = SumFunctionOnSet(b, S)
            BY <3>2, OfIsFinite, SumAgree
        <3>. QED
            BY <3>1, <3>4, <3>5 DEF Num
    <2>. QED
        BY <2>1, <2>2
<1>. QED
    BY <1>3, <1>4, <1>6 DEF OthersSame

LEMMA CallEnds ==
    ASSUME NEW b, IsCalls(b), NEW c \in DOMAIN b, NEW n, n = b (-) One(c)
    PROVE  /\ IsCalls(n)
           /\ DOMAIN n \subseteq DOMAIN b /\ DOMAIN b \subseteq DOMAIN n \cup {c}
           /\ Num(n, c.fn) + 1 = Num(b, c.fn)
           /\ OthersSame(n, b, c.fn)
<1>. DEFINE fn == c.fn
            S == Of(b, fn)
<1>1. /\ DOMAIN n = IF b[c] = 1 THEN DOMAIN b \ {c} ELSE DOMAIN b
      /\ \A d \in DOMAIN b : d # c => n[d] = b[d]
      /\ b[c] # 1 => n[c] + 1 = b[c]
      /\ n = [d \in DOMAIN n |-> n[d]]
      /\ b[c] \in Nat \ {0}
    BY DEF IsCalls, One, SetToBag, (-)
<1>2. IsCalls(n)
    <2>1. IsFiniteSet(DOMAIN n)
        BY <1>1, FS_Subset DEF IsCalls
    <2>2. \A d \in DOMAIN n : n[d] \in Nat \ {0}
        <3>. SUFFICES ASSUME NEW d \in DOMAIN n PROVE n[d] \in Nat \ {0}
            OBVIOUS
        <3>1. CASE d = c
            <4>1. n[c] = b[c] - 1
                BY <1>1, <3>1 DEF IsCalls, One, SetToBag, (-)
            <4>. QED
                BY <1>1, <3>1, <4>1
        <3>2. CASE d # c
            BY <1>1, <3>2 DEF IsCalls
        <3>. QED
            BY <3>1, <3>2
    <2>. QED
        BY <1>1, <2>1, <2>2 DEF IsCalls
<1>3. ASSUME NEW f \in Fns, c.fn # f
      PROVE  SameIn(n, b, f)
    <2>1. Of(n, f) = Of(b, f)
        BY <1>1, <1>3 DEF Of
    <2>2. \A d \in Of(b, f) : n[d] = b[d]
        BY <1>1, <1>3 DEF Of
    <2>3. SumFunctionOnSet(n, Of(b, f)) = SumFunctionOnSet(b, Of(b, f))
        BY <2>2, OfIsFinite, SumAgree
    <2>. QED
        BY <2>1, <2>3 DEF Num, SameIn
<1>4. Num(n, fn) + 1 = Num(b, fn)
    <2>1. CASE b[c] = 1
        <3>1. c \in S /\ Of(n, fn) = S \ {c} /\ \A d \in S \ {c} : n[d] = b[d]
            BY <1>1, <2>1 DEF Of
        <3>. HIDE DEF fn
        <3>2. SumFunctionOnSet(b, S) = b[c] + SumFunctionOnSet(b, S \ {c})
            BY <3>1, OfIsFinite, SumTakes
        <3>3. IsFiniteSet(S \ {c})
            BY OfIsFinite, FS_Subset
        <3>4. SumFunctionOnSet(n, S \ {c}) = SumFunctionOnSet(b, S \ {c})
            BY <3>1, <3>3, SumAgree
        <3>5. SumFunctionOnSet(b, S \ {c}) \in Nat
            BY <3>3, OfIsFinite, SumNat
        <3>. QED
            BY <2>1, <3>1, <3>2, <3>4, <3>5 DEF Num
    <2>2. CASE b[c] # 1
        <3>1. c \in S /\ Of(n, fn) = S /\ n[c] + 1 = b[c] /\ \A d \in S \ {c} : n[d] = b[d]
            BY <1>1, <2>2 DEF Of
        <3>. HIDE DEF fn
        <3>2. \A d \in S : n[d] \in Int
            BY <1>2, <3>1, OfIsFinite
        <3>3. b[c] = n[c] + 1 /\ \A d \in S \ {c} : b[d] = n[d]
            BY <3>1
        <3>4. SumFunctionOnSet(b, S) = SumFunctionOnSet(n, S) + 1
            BY <3>1, <3>2, <3>3, OfIsFinite, SumBump
        <3>. QED
            BY <3>1, <3>4 DEF Num
    <2>. QED
        BY <2>1, <2>2
<1>5. DOMAIN n \subseteq DOMAIN b /\ DOMAIN b \subseteq DOMAIN n \cup {c}
    BY <1>1
<1>. QED
    BY <1>2, <1>3, <1>4, <1>5 DEF OthersSame

\* A call that goes on is counted as before.
LEMMA CallGoesOn ==
    ASSUME NEW b, IsCalls(b), NEW c \in DOMAIN b, c.fn \in Fns, NEW d, d.fn = c.fn,
           NEW n, n = (b (-) One(c)) (+) One(d)
    PROVE  /\ IsCalls(n)
           /\ DOMAIN n \subseteq DOMAIN b \cup {d} /\ DOMAIN b \subseteq DOMAIN n \cup {c}
           /\ d \in DOMAIN n
           /\ \A fn \in Fns : Num(n, fn) = Num(b, fn)
           /\ OthersSame(n, b, c.fn)
<1>. DEFINE m == b (-) One(c)
<1>1. /\ IsCalls(m)
      /\ DOMAIN m \subseteq DOMAIN b /\ DOMAIN b \subseteq DOMAIN m \cup {c}
      /\ Num(m, c.fn) + 1 = Num(b, c.fn)
      /\ OthersSame(m, b, c.fn)
    BY CallEnds
<1>. HIDE DEF m
<1>2. n = m (+) One(d)
    BY DEF m
<1>3. /\ IsCalls(n)
      /\ DOMAIN n = DOMAIN m \cup {d}
      /\ Num(n, d.fn) = Num(m, d.fn) + 1
      /\ OthersSame(n, m, d.fn)
    BY <1>1, <1>2, CallStarts
<1>4. (\A fn \in Fns : Num(n, fn) = Num(b, fn)) /\ OthersSame(n, b, c.fn)
    BY <1>1, <1>3 DEF OthersSame, SameIn
<1>. QED
    BY <1>1, <1>3, <1>4

-----------------------------------------------------------------------------
(***************************************************************************)
(* The invariant.                                                          *)
(***************************************************************************)

Places == {"wallet", "balance", "sent", "answered", "confirm",
           "hashes", "withdrawal", "services"}

CallType == [fn : Fns, at : Places, account : Accounts \cup {None},
             note : Nat, read : {"", "no", "yes"}]

\* What is known of a call by the place it waits at.
CallOK(c) ==
    /\ c \in CallType
    /\ c.at = "answered" => c.read # ""
    /\ c.at \in {"hashes", "services"} => c.fn \in {"deposit", "withdraw"}
    /\ c.at = "withdrawal" => c.fn = "withdraw"

BagOK(b) == IsCalls(b) /\ \A c \in DOMAIN b : CallOK(c)

CallsInv == BagOK(calls)

\* The balance beside an address is that address's once the wallet's own request
\* for it has come: what a form's request writes is not needed for that.
BalanceInv ==
    /\ store.isConnected /\ ~stale
    /\ \A c \in Of(calls, "connect") \cup Of(calls, "refresh") : c.at # "balance"
    => store.balance = store.walletAddress

\* Each handler was registered by a connect, and each connect was a click.
WalletInv ==
    /\ provider \in [connected : BOOLEAN, account : Accounts \cup {None}]
    /\ store \in [isConnected : BOOLEAN, isConnecting : BOOLEAN,
                  walletAddress : Accounts \cup {None}, balance : Accounts \cup {None}]
    /\ store.isConnected <=> store.walletAddress # None
    /\ Num(calls, "connect") = IF store.isConnecting THEN 1 ELSE 0
    /\ handlers \in Nat /\ handlers + Num(calls, "connect") <= clicks
    /\ store.isConnected /\ ~unheard /\ Of(calls, "disconnect") = {} =>
            store.walletAddress = provider.account
    /\ BalanceInv

\* The pool is being loaded while a call will set `loading` back: a fetch, or an
\* initialization that fetches.
PoolInv ==
    /\ pool \in [loading : BOOLEAN, initializing : BOOLEAN,
                 isInitialized : {"unknown", "no", "yes"}]
    /\ Num(calls, "init") = IF pool.initializing THEN 1 ELSE 0
    /\ pool.loading =>
            \/ Of(calls, "fetch") # {}
            \/ \E c \in Of(calls, "init") : c.at \in {"sent", "answered"}

\* The deposits that wait for their balance, their notes stored but not shown.
Storing == {c \in Of(calls, "deposit") : c.at = "balance"}

\* The notes are numbered as they are stored, one for a click at most, so a
\* deposit that has not stored its note has a number left.
NumberInv ==
    \E k \in Nat :
        /\ notes.saved = 1 .. k
        /\ k <= clicks + 1
        /\ Of(calls, "deposit") # Storing => k + 1 <= clicks + 1

DepositInv ==
    /\ form \in [loading : BOOLEAN, showNote : BOOLEAN, depositNote : Nat]
    /\ Num(calls, "deposit") = IF form.loading THEN 1 ELSE 0
    /\ ~ (form.showNote /\ form.loading)
    /\ form.depositNote \in notes.saved \cup {0}
    /\ \A c \in Storing : c.note = form.depositNote
    /\ notes.saved = offered \cup unseen \cup {c.note : c \in Storing}
    /\ form.showNote => form.depositNote \in offered
    /\ NumberInv

\* A withdrawal goes on past its first await only with a note of the store.
WithdrawInv ==
    /\ withdrawal \in [loading : BOOLEAN, proofGenerating : BOOLEAN]
    /\ Num(calls, "withdraw") = IF withdrawal.loading THEN 1 ELSE 0
    /\ withdrawal.proofGenerating => withdrawal.loading
    /\ notes \in [saved : SUBSET Nat, used : SUBSET Nat]
    /\ notes.used \subseteq notes.saved
    /\ \A c \in Of(calls, "withdraw") : c.note \in notes.saved \/ c.at = "hashes"

\* A circuit was fetched once if it is not missing.
CircuitInv ==
    /\ circuits \in [Circuits -> {"none", "fetching", "ready", "broken"}]
    /\ fetched \in [Circuits -> Nat]
    /\ \A name \in Circuits : fetched[name] = IF circuits[name] = "none" THEN 0 ELSE 1

ClicksInv == clicks \in 0 .. MaxClicks

FormsInv == DepositInv /\ WithdrawInv

IInv == CallsInv /\ WalletInv /\ PoolInv /\ FormsInv /\ CircuitInv /\ ClicksInv

-----------------------------------------------------------------------------
(***************************************************************************)
(* What a step does to the calls, and what it leaves alone.                *)
(***************************************************************************)

SameCalls(fn) == SameIn(calls', calls, fn)

WalletSame == SameCalls("connect") /\ SameCalls("refresh") /\ SameCalls("disconnect")
PoolSame == SameCalls("fetch") /\ SameCalls("init")
FormsSame == SameCalls("deposit") /\ SameCalls("withdraw")

LEMMA PartsSame ==
    ASSUME NEW fn, OthersSame(calls', calls, fn)
    PROVE  /\ fn \in {"connect", "refresh", "disconnect"} => PoolSame /\ FormsSame
           /\ fn \in {"fetch", "init"} => WalletSame /\ FormsSame
           /\ fn \in {"deposit", "withdraw"} => WalletSame /\ PoolSame
BY DEF OthersSame, SameCalls, WalletSame, PoolSame, FormsSame, Fns

LEMMA StartsOne ==
    ASSUME CallsInv, NEW d, CallOK(d), calls' = calls (+) One(d)
    PROVE  /\ CallsInv'
           /\ Num(calls', d.fn) = Num(calls, d.fn) + 1
           /\ Of(calls', d.fn) = Of(calls, d.fn) \cup {d}
           /\ OthersSame(calls', calls, d.fn)
<1>. DEFINE b == calls
            n == calls'
<1>1. IsCalls(b) /\ n = b (+) One(d)
    BY DEF CallsInv, BagOK
<1>. HIDE DEF b, n
<1>2. /\ IsCalls(n)
      /\ DOMAIN n = DOMAIN b \cup {d}
      /\ Num(n, d.fn) = Num(b, d.fn) + 1
      /\ OthersSame(n, b, d.fn)
    BY <1>1, CallStarts
<1>. USE DEF b, n
<1>3. CallsInv'
    BY <1>2 DEF CallsInv, BagOK
<1>4. Of(calls', d.fn) = Of(calls, d.fn) \cup {d}
    BY <1>2 DEF Of
<1>. QED
    BY <1>2, <1>3, <1>4

LEMMA EndsOne ==
    ASSUME CallsInv, NEW c \in DOMAIN calls, Ends(c)
    PROVE  /\ CallsInv'
           /\ Num(calls', c.fn) + 1 = Num(calls, c.fn)
           /\ Num(calls', c.fn) \in Nat
           /\ Of(calls', c.fn) \subseteq Of(calls, c.fn)
           /\ Of(calls, c.fn) \subseteq Of(calls', c.fn) \cup {c}
           /\ Num(calls, c.fn) = 1 => Of(calls', c.fn) = {}
           /\ OthersSame(calls', calls, c.fn)
<1>1. IsCalls(calls) /\ c.fn \in Fns
    BY DEF CallsInv, BagOK, CallOK, CallType
<1>2. /\ IsCalls(calls')
      /\ DOMAIN calls' \subseteq DOMAIN calls /\ DOMAIN calls \subseteq DOMAIN calls' \cup {c}
      /\ Num(calls', c.fn) + 1 = Num(calls, c.fn)
      /\ OthersSame(calls', calls, c.fn)
    BY <1>1, CallEnds DEF Ends
<1>3. CallsInv'
    BY <1>2 DEF CallsInv, BagOK
<1>4. /\ Of(calls', c.fn) \subseteq Of(calls, c.fn)
      /\ Of(calls, c.fn) \subseteq Of(calls', c.fn) \cup {c}
    BY <1>2 DEF Of
<1>5. Num(calls', c.fn) \in Nat
    BY <1>1, <1>2, NumIsNat
<1>6. Num(calls, c.fn) = 1 => Of(calls', c.fn) = {}
    BY <1>1, <1>2, <1>5, NumIsFew
<1>. QED
    BY <1>2, <1>3, <1>4, <1>5, <1>6

LEMMA GoesOnBag ==
    ASSUME NEW b, BagOK(b), NEW c \in DOMAIN b, NEW d, CallOK(d), d.fn = c.fn,
           NEW n, n = (b (-) One(c)) (+) One(d)
    PROVE  /\ BagOK(n)
           /\ \A fn \in Fns : Num(n, fn) = Num(b, fn)
           /\ d \in Of(n, c.fn)
           /\ Of(n, c.fn) \subseteq Of(b, c.fn) \cup {d}
           /\ Of(b, c.fn) \subseteq Of(n, c.fn) \cup {c}
           /\ Num(b, c.fn) = 1 => \A e \in Of(n, c.fn) : e = d
           /\ OthersSame(n, b, c.fn)
<1>1. IsCalls(b) /\ c.fn \in Fns
    BY DEF BagOK, CallOK, CallType
<1>2. /\ IsCalls(n)
      /\ DOMAIN n \subseteq DOMAIN b \cup {d} /\ DOMAIN b \subseteq DOMAIN n \cup {c}
      /\ d \in DOMAIN n
      /\ \A fn \in Fns : Num(n, fn) = Num(b, fn)
      /\ OthersSame(n, b, c.fn)
    BY <1>1, CallGoesOn
<1>3. BagOK(n)
    BY <1>2 DEF BagOK
<1>4. /\ d \in Of(n, c.fn)
      /\ Of(n, c.fn) \subseteq Of(b, c.fn) \cup {d}
      /\ Of(b, c.fn) \subseteq Of(n, c.fn) \cup {c}
    BY <1>2 DEF Of
<1>5. ASSUME Num(b, c.fn) = 1
      PROVE  \A e \in Of(n, c.fn) : e = d
    <2>1. Num(n, c.fn) = 1
        BY <1>1, <1>2, <1>5
    <2>2. \A e, f \in Of(n, c.fn) : e = f
        BY <1>1, <1>2, <2>1, NumIsFew
    <2>. QED
        BY <1>4, <2>2
<1>. QED
    BY <1>2, <1>3, <1>4, <1>5

LEMMA GoesOnOne ==
    ASSUME CallsInv, NEW c \in DOMAIN calls, NEW d, CallOK(d), d.fn = c.fn, GoesOn(c, d)
    PROVE  /\ CallsInv'
           /\ \A fn \in Fns : Num(calls', fn) = Num(calls, fn)
           /\ d \in Of(calls', c.fn)
           /\ Of(calls', c.fn) \subseteq Of(calls, c.fn) \cup {d}
           /\ Of(calls, c.fn) \subseteq Of(calls', c.fn) \cup {c}
           /\ Num(calls, c.fn) = 1 => \A e \in Of(calls', c.fn) : e = d
           /\ OthersSame(calls', calls, c.fn)
<1>. DEFINE b == calls
            n == calls'
<1>1. BagOK(b) /\ c \in DOMAIN b /\ n = (b (-) One(c)) (+) One(d)
    BY DEF CallsInv, GoesOn
<1>. HIDE DEF b, n
<1>2. /\ BagOK(n)
      /\ \A fn \in Fns : Num(n, fn) = Num(b, fn)
      /\ d \in Of(n, c.fn)
      /\ Of(n, c.fn) \subseteq Of(b, c.fn) \cup {d}
      /\ Of(b, c.fn) \subseteq Of(n, c.fn) \cup {c}
      /\ Num(b, c.fn) = 1 => \A e \in Of(n, c.fn) : e = d
      /\ OthersSame(n, b, c.fn)
    BY <1>1, GoesOnBag
<1>. QED
    BY <1>2 DEF CallsInv, b, n

\* A call of fetchPoolInfo, or none, is added.
LEMMA MaybeFetched ==
    ASSUME NEW b, BagOK(b), NEW w, w = One(Fetch) \/ w = EmptyBag, NEW n, n = b (+) w
    PROVE  /\ BagOK(n)
           /\ OthersSame(n, b, "fetch")
           /\ Of(b, "fetch") \subseteq Of(n, "fetch")
           /\ w = One(Fetch) => Of(n, "fetch") # {}
<1>1. CallOK(Fetch) /\ Fetch.fn = "fetch"
    BY DEF CallOK, CallType, Fetch, Call, Fns, Places
<1>2. /\ IsCalls(w) /\ DOMAIN w \subseteq {Fetch}
      /\ w = One(Fetch) => Fetch \in DOMAIN w
    BY OneIsCalls
<1>3. \A fn \in Fns : fn # "fetch" => Of(w, fn) = {}
    BY <1>1, <1>2 DEF Of
<1>4. /\ IsCalls(n)
      /\ DOMAIN n = DOMAIN b \cup DOMAIN w
      /\ OthersSame(n, b, "fetch")
    <2>1. /\ IsCalls(n)
          /\ DOMAIN n = DOMAIN b \cup DOMAIN w
          /\ \A fn \in Fns : Of(w, fn) = {} => SameIn(n, b, fn)
        BY <1>2, CallsAdded DEF BagOK
    <2>. QED
        BY <1>3, <2>1 DEF OthersSame
<1>. QED
    BY <1>1, <1>2, <1>4 DEF BagOK, Of

LEMMA ClicksHold ==
    ASSUME ClicksInv, Click \/ Fault \/ Answer
    PROVE  /\ ClicksInv'
           /\ clicks \in Nat /\ clicks' \in Nat
           /\ \E k \in Nat : clicks' = clicks + k
           /\ Click => clicks' = clicks + 1
BY PageAssumption DEF ClicksInv, Click, Fault, Answer

LEMMA WalletStays ==
    ASSUME CallsInv, WalletInv, ClicksInv, Click \/ Fault \/ Answer, UNCHANGED wallet,
           WalletSame
    PROVE  WalletInv'
<1>1. /\ provider' = provider /\ store' = store /\ handlers' = handlers
      /\ unheard' = unheard /\ stale' = stale
    BY DEF wallet
<1>2. Num(calls, "connect") \in Nat
    BY NumIsNat DEF CallsInv, BagOK, Fns
<1>3. handlers + Num(calls, "connect") <= clicks'
    <2>1. PICK k \in Nat : clicks' = clicks + k
        BY ClicksHold
    <2>. QED
        BY <1>2, <2>1, ClicksHold DEF WalletInv
<1>4. BalanceInv'
    BY <1>1 DEF WalletInv, BalanceInv, WalletSame, SameCalls, SameIn
<1>. QED
    BY <1>1, <1>3, <1>4 DEF WalletInv, WalletSame, SameCalls, SameIn

LEMMA PoolStays ==
    ASSUME PoolInv, UNCHANGED pool, PoolSame
    PROVE  PoolInv'
BY DEF PoolInv, PoolSame, SameCalls, SameIn

LEMMA DepositStays ==
    ASSUME DepositInv, ClicksInv, Click \/ Fault \/ Answer, notes'.saved = notes.saved,
           UNCHANGED <<form, offered, unseen>>, SameCalls("deposit")
    PROVE  DepositInv'
<1>1. Storing' = Storing
    BY DEF Storing, SameCalls, SameIn
<1>2. NumberInv'
    <2>1. PICK k \in Nat : clicks' = clicks + k
        BY ClicksHold
    <2>2. PICK n \in Nat :
            /\ notes.saved = 1 .. n
            /\ n <= clicks + 1
            /\ Of(calls, "deposit") # Storing => n + 1 <= clicks + 1
        BY DEF DepositInv, NumberInv
    <2>3. n <= clicks' + 1
        BY <2>1, <2>2, ClicksHold
    <2>4. Of(calls, "deposit") # Storing => n + 1 <= clicks' + 1
        BY <2>1, <2>2, ClicksHold
    <2>. QED
        BY <1>1, <2>2, <2>3, <2>4 DEF NumberInv, SameCalls, SameIn
<1>. QED
    BY <1>1, <1>2 DEF DepositInv, SameCalls, SameIn

LEMMA WithdrawStays ==
    ASSUME WithdrawInv, UNCHANGED <<withdrawal, notes>>, SameCalls("withdraw")
    PROVE  WithdrawInv'
BY DEF WithdrawInv, SameCalls, SameIn

LEMMA FormsStay ==
    ASSUME FormsInv, ClicksInv, Click \/ Fault \/ Answer, UNCHANGED forms,
           FormsSame
    PROVE  FormsInv'
BY DepositStays, WithdrawStays DEF FormsInv, FormsSame, forms

LEMMA CircuitsStay ==
    ASSUME CircuitInv, UNCHANGED cache
    PROVE  CircuitInv'
BY DEF CircuitInv, cache

-----------------------------------------------------------------------------
(***************************************************************************)
(* The initial states.                                                     *)
(***************************************************************************)

LEMMA NumOfNone ==
    ASSUME NEW b, NEW fn, Of(b, fn) = {}
    PROVE  Num(b, fn) = 0
BY SumEmpty DEF Num

LEMMA InitHolds == Init => IInv
<1>. SUFFICES ASSUME Init PROVE IInv
    OBVIOUS
<1>1. /\ IsCalls(calls)
      /\ Fetch \in DOMAIN calls
      /\ DOMAIN calls \subseteq {Fetch, Refresh(provider.account)}
      /\ ~ provider.connected => DOMAIN calls = {Fetch}
      /\ provider.connected => Refresh(provider.account) \in DOMAIN calls
    <2>1. CASE provider.connected
        <3>. DEFINE r == One(Refresh(provider.account))
                    b == r (+) One(Fetch)
        <3>1. IsCalls(r) /\ DOMAIN r = {Refresh(provider.account)}
            BY OneIsCalls
        <3>. HIDE DEF r
        <3>2. IsCalls(b) /\ DOMAIN b = DOMAIN r \cup {Fetch}
            BY <3>1, CallStarts
        <3>3. calls = b (+) One(Fetch)
            BY <2>1 DEF Init, r
        <3>. HIDE DEF b
        <3>4. IsCalls(calls) /\ DOMAIN calls = DOMAIN b \cup {Fetch}
            <4>. DEFINE n == calls
            <4>1. n = b (+) One(Fetch)
                BY <3>3
            <4>. HIDE DEF n
            <4>2. IsCalls(n) /\ DOMAIN n = DOMAIN b \cup {Fetch}
                BY <3>2, <4>1, CallStarts
            <4>. QED
                BY <4>2 DEF n
        <3>. QED
            BY <2>1, <3>1, <3>2, <3>4
    <2>2. CASE ~ provider.connected
        <3>1. calls = One(Fetch)
            BY <2>2 DEF Init
        <3>. QED
            BY <2>2, <3>1, OneIsCalls
    <2>. QED
        BY <2>1, <2>2
<1>2. /\ provider.account \in Accounts \cup {None}
      /\ provider \in [connected : BOOLEAN, account : Accounts \cup {None}]
      /\ provider.connected <=> provider.account # None
    <2>1. CASE provider = [connected |-> FALSE, account |-> None]
        BY <2>1
    <2>2. CASE \E a \in Accounts : provider = [connected |-> TRUE, account |-> a]
        BY <2>2, PageAssumption
    <2>. QED
        BY <2>1, <2>2 DEF Init
<1>3. \A c \in {Fetch, Refresh(provider.account)} :
        /\ CallOK(c)
        /\ c.fn \in {"fetch", "refresh"}
    <2>1. CallOK(Fetch) /\ Fetch.fn = "fetch"
        BY DEF CallOK, CallType, Fetch, Call, Fns, Places
    <2>2. CallOK(Refresh(provider.account)) /\ Refresh(provider.account).fn = "refresh"
        BY <1>2 DEF CallOK, CallType, Refresh, Call, Fns, Places
    <2>. QED
        BY <2>1, <2>2
<1>4. CallsInv
    BY <1>1, <1>3 DEF CallsInv, BagOK
<1>5. /\ Of(calls, "connect") = {} /\ Of(calls, "disconnect") = {} /\ Of(calls, "init") = {}
      /\ Of(calls, "deposit") = {} /\ Of(calls, "withdraw") = {}
    BY <1>1, <1>3 DEF Of
<1>6. /\ Num(calls, "connect") = 0 /\ Num(calls, "init") = 0
      /\ Num(calls, "deposit") = 0 /\ Num(calls, "withdraw") = 0
    BY <1>5, NumOfNone
<1>7. WalletInv
    <2>1. BalanceInv
        <3>1. Refresh(provider.account).at = "balance" /\ Refresh(provider.account).fn = "refresh"
            BY DEF Refresh, Call
        <3>2. provider.connected => Refresh(provider.account) \in Of(calls, "refresh")
            BY <1>1, <3>1 DEF Of
        <3>. QED
            BY <3>1, <3>2 DEF Init, BalanceInv
    <2>. QED
        BY <1>2, <1>6, <2>1, PageAssumption DEF Init, WalletInv
<1>8. PoolInv
    <2>1. Fetch \in Of(calls, "fetch")
        BY <1>1 DEF Of, Fetch, Call
    <2>. QED
        BY <1>6, <2>1 DEF Init, PoolInv
<1>9. FormsInv
    <2>1. Storing = {} /\ {c.note : c \in Storing} = {}
        BY <1>5 DEF Storing
    <2>2. PICK n \in {0, 1} : notes = [saved |-> 1 .. n, used |-> {}] /\ offered = 1 .. n
        BY DEF Init
    <2>3. NumberInv
        BY <1>5, <2>1, <2>2 DEF Init, NumberInv
    <2>. QED
        BY <1>5, <1>6, <2>1, <2>2, <2>3 DEF Init, FormsInv, DepositInv, WithdrawInv
<1>10. CircuitInv
    BY DEF Init, CircuitInv
<1>11. ClicksInv
    BY PageAssumption DEF Init, ClicksInv
<1>. QED
    BY <1>4, <1>7, <1>8, <1>9, <1>10, <1>11 DEF IInv

-----------------------------------------------------------------------------
(***************************************************************************)
(* The wallet's steps.                                                     *)
(***************************************************************************)

LEMMA handleConnectHolds ==
    ASSUME IInv, handleConnect
    PROVE  IInv'
<1>. DEFINE d == Call("connect", "wallet", None, 0, "")
<1>1. /\ CallOK(d) /\ d.fn = "connect" /\ d.at = "wallet"
    BY DEF CallOK, CallType, Call, Fns, Places
<1>2. /\ CallsInv'
      /\ Num(calls', "connect") = Num(calls, "connect") + 1
      /\ Of(calls', "connect") = Of(calls, "connect") \cup {d}
      /\ OthersSame(calls', calls, "connect")
    <2>1. calls' = calls (+) One(d)
        BY DEF handleConnect
    <2>. HIDE DEF d
    <2>. QED
        BY <1>1, <2>1, StartsOne DEF IInv
<1>. HIDE DEF d
<1>3. PoolSame /\ FormsSame
    BY <1>2, PartsSame
<1>4. /\ Click /\ UNCHANGED <<pool, forms, cache>>
      /\ UNCHANGED <<provider, handlers, unheard, stale>>
      /\ ~store.isConnected /\ ~store.isConnecting
      /\ store' = [store EXCEPT !.isConnecting = TRUE]
    BY DEF handleConnect
<1>5. WalletInv'
    <2>1. ~ store'.isConnected
        BY <1>4 DEF IInv, WalletInv
    <2>2. BalanceInv'
        BY <2>1 DEF BalanceInv
    <2>3. handlers' + Num(calls', "connect") <= clicks'
        BY <1>2, <1>4, ClicksHold DEF IInv, WalletInv
    <2>4. Num(calls', "connect") = 1
        BY <1>2, <1>4 DEF IInv, WalletInv
    <2>. QED
        BY <1>4, <2>1, <2>2, <2>3, <2>4 DEF IInv, WalletInv
<1>6. PoolInv' /\ FormsInv' /\ CircuitInv' /\ ClicksInv'
    BY <1>3, <1>4, PoolStays, FormsStay, CircuitsStay, ClicksHold DEF IInv
<1>. QED
    BY <1>2, <1>5, <1>6 DEF IInv

LEMMA WalletConnectsHolds ==
    ASSUME IInv, NEW c \in DOMAIN calls, NEW a \in Accounts, WalletConnects(c, a)
    PROVE  IInv'
<1>. DEFINE d == [c EXCEPT !.at = "balance", !.account = a]
            b == calls
            m == (b (-) One(c)) (+) One(d)
            n == calls'
            w == Watched
<1>1. CallOK(c) /\ c.fn = "connect" /\ c.at = "wallet" /\ BagOK(b)
    BY DEF WalletConnects, IInv, CallsInv, BagOK
<1>2. CallOK(d) /\ d.fn = "connect" /\ d.at = "balance"
    BY <1>1 DEF CallOK, CallType, Places
<1>3. n = m (+) w /\ (w = One(Fetch) \/ w = EmptyBag)
    BY DEF WalletConnects, Watched
<1>. HIDE DEF b, d, n, w
<1>4. /\ BagOK(m)
      /\ \A fn \in Fns : Num(m, fn) = Num(b, fn)
      /\ d \in Of(m, "connect")
      /\ OthersSame(m, b, "connect")
    <2>1. c \in DOMAIN b
        BY DEF b
    <2>. QED
        BY <1>1, <1>2, <2>1, GoesOnBag
<1>. HIDE DEF m
<1>5. /\ BagOK(n)
      /\ OthersSame(n, m, "fetch")
      /\ Of(m, "fetch") \subseteq Of(n, "fetch")
      /\ w = One(Fetch) => Of(n, "fetch") # {}
    BY <1>3, <1>4, MaybeFetched
<1>6. /\ CallsInv'
      /\ Num(calls', "connect") = Num(calls, "connect")
      /\ d \in Of(calls', "connect")
      /\ Of(calls', "disconnect") = Of(calls, "disconnect")
      /\ SameCalls("init") /\ FormsSame
      /\ Of(calls, "fetch") \subseteq Of(calls', "fetch")
      /\ Comes => Of(calls', "fetch") # {}
    BY <1>4, <1>5
       DEF OthersSame, SameIn, SameCalls, FormsSame, Fns, CallsInv, n, b, w, Watched
<1>7. /\ Answer /\ UNCHANGED <<forms, cache, handlers, stale>>
      /\ provider' = [connected |-> TRUE, account |-> a]
      /\ store' = [store EXCEPT !.isConnected = TRUE, !.walletAddress = a]
      /\ unheard' = FALSE
      /\ pool' = IF Comes THEN [pool EXCEPT !.loading = TRUE] ELSE pool
    BY DEF WalletConnects, setWallet, PoolWatched
<1>8. WalletInv'
    <2>1. BalanceInv'
        BY <1>2, <1>6 DEF BalanceInv
    <2>2. handlers' + Num(calls', "connect") <= clicks'
        BY <1>6, <1>7 DEF IInv, WalletInv, Answer
    <2>. QED
        BY <1>6, <1>7, <2>1, <2>2, PageAssumption DEF IInv, WalletInv
<1>9. PoolInv'
    BY <1>6, <1>7 DEF IInv, PoolInv, SameCalls, SameIn
<1>10. FormsInv' /\ CircuitInv' /\ ClicksInv'
    BY <1>6, <1>7, FormsStay, CircuitsStay, ClicksHold DEF IInv
<1>. QED
    BY <1>6, <1>8, <1>9, <1>10 DEF IInv

LEMMA WalletRefusesHolds ==
    ASSUME IInv, NEW c \in DOMAIN calls, WalletRefuses(c)
    PROVE  IInv'
<1>1. /\ c.fn = "connect" /\ c.at = "wallet" /\ Ends(c)
      /\ Answer /\ UNCHANGED <<provider, handlers, unheard, stale, forms, cache, pool>>
      /\ store' = [store EXCEPT !.isConnecting = FALSE]
    BY DEF WalletRefuses
<1>2. /\ CallsInv'
      /\ Num(calls', "connect") + 1 = Num(calls, "connect")
      /\ Num(calls', "connect") \in Nat
      /\ Of(calls, "connect") \subseteq Of(calls', "connect") \cup {c}
      /\ OthersSame(calls', calls, "connect")
    BY <1>1, EndsOne DEF IInv
<1>3. PoolSame /\ FormsSame
    BY <1>2, PartsSame
<1>4. Of(calls', "disconnect") = Of(calls, "disconnect") /\ Of(calls', "refresh") = Of(calls, "refresh")
    BY <1>2 DEF OthersSame, SameIn, Fns
<1>5. WalletInv'
    <2>1. BalanceInv'
        BY <1>1, <1>2, <1>4 DEF IInv, WalletInv, BalanceInv
    <2>2. Num(calls', "connect") = 0
        BY <1>2 DEF IInv, WalletInv
    <2>3. handlers' + Num(calls', "connect") <= clicks'
        BY <1>1, <1>2, <2>2, ClicksHold DEF IInv, WalletInv, Answer
    <2>. QED
        BY <1>1, <1>4, <2>1, <2>2, <2>3 DEF IInv, WalletInv
<1>6. PoolInv' /\ FormsInv' /\ CircuitInv' /\ ClicksInv'
    BY <1>1, <1>3, PoolStays, FormsStay, CircuitsStay, ClicksHold DEF IInv
<1>. QED
    BY <1>2, <1>5, <1>6 DEF IInv

LEMMA BalanceArrivesHolds ==
    ASSUME IInv, NEW c \in DOMAIN calls, BalanceArrives(c)
    PROVE  IInv'
<1>. DEFINE known == IF c.fn = "connect" THEN [store EXCEPT !.isConnecting = FALSE] ELSE store
<1>1. /\ c.fn \in {"connect", "refresh"} /\ c.at = "balance" /\ Ends(c)
      /\ UNCHANGED <<provider, unheard, forms, cache, pool>>
      /\ handlers' = IF c.fn = "connect" THEN handlers + 1 ELSE handlers
      /\ Answer \/ Fault
      /\ \/ /\ store' = [known EXCEPT !.balance = c.account]
            /\ stale' = (store.walletAddress # c.account)
         \/ store' = known /\ stale' = TRUE
    BY DEF BalanceArrives
<1>2. /\ CallsInv'
      /\ Num(calls', c.fn) + 1 = Num(calls, c.fn)
      /\ Num(calls', c.fn) \in Nat
      /\ OthersSame(calls', calls, c.fn)
    BY <1>1, EndsOne DEF IInv
<1>3. PoolSame /\ FormsSame
    BY <1>1, <1>2, PartsSame
<1>4. /\ Of(calls', "disconnect") = Of(calls, "disconnect")
      /\ c.fn = "refresh" => Num(calls', "connect") = Num(calls, "connect")
    BY <1>1, <1>2 DEF OthersSame, SameIn, Fns
<1>5. c.account \in Accounts \cup {None}
    BY DEF IInv, CallsInv, BagOK, CallOK, CallType
<1>6. /\ store' \in [isConnected : BOOLEAN, isConnecting : BOOLEAN,
                     walletAddress : Accounts \cup {None}, balance : Accounts \cup {None}]
      /\ store'.isConnected = store.isConnected /\ store'.walletAddress = store.walletAddress
      /\ store'.isConnecting = IF c.fn = "connect" THEN FALSE ELSE store.isConnecting
      /\ ~stale' => store'.balance = store.walletAddress
    BY <1>1, <1>5 DEF IInv, WalletInv
<1>. HIDE DEF known
<1>7. WalletInv'
    <2>1. BalanceInv'
        BY <1>6 DEF BalanceInv
    <2>2. Num(calls', "connect") = IF store'.isConnecting THEN 1 ELSE 0
        BY <1>1, <1>2, <1>4, <1>6 DEF IInv, WalletInv
    <2>3. handlers' \in Nat /\ handlers' + Num(calls', "connect") <= clicks
        BY <1>1, <1>2, <1>4 DEF IInv, WalletInv
    <2>4. clicks' = clicks
        BY <1>1 DEF Answer, Fault
    <2>. QED
        BY <1>1, <1>4, <1>6, <2>1, <2>2, <2>3, <2>4 DEF IInv, WalletInv
<1>8. PoolInv' /\ FormsInv' /\ CircuitInv' /\ ClicksInv'
    BY <1>1, <1>3, PoolStays, FormsStay, CircuitsStay, ClicksHold DEF IInv
<1>. QED
    BY <1>2, <1>7, <1>8 DEF IInv

LEMMA handleDisconnectHolds ==
    ASSUME IInv, handleDisconnect
    PROVE  IInv'
<1>. DEFINE d == Call("disconnect", "wallet", None, 0, "")
<1>1. CallOK(d) /\ d.fn = "disconnect"
    BY DEF CallOK, CallType, Call, Fns, Places
<1>2. calls' = calls (+) One(d)
    BY DEF handleDisconnect
<1>. HIDE DEF d
<1>3. /\ CallsInv'
      /\ Of(calls', "disconnect") = Of(calls, "disconnect") \cup {d}
      /\ OthersSame(calls', calls, "disconnect")
    BY <1>1, <1>2, StartsOne DEF IInv
<1>4. PoolSame /\ FormsSame
    BY <1>3, PartsSame
<1>5. SameCalls("connect") /\ SameCalls("refresh")
    BY <1>3 DEF OthersSame, SameCalls, Fns
<1>6. Click /\ UNCHANGED <<wallet, forms, cache, pool>>
    BY DEF handleDisconnect
<1>7. WalletInv'
    <2>1. BalanceInv'
        BY <1>5, <1>6 DEF IInv, WalletInv, BalanceInv, wallet, SameCalls, SameIn
    <2>2. handlers + Num(calls, "connect") <= clicks'
        <3>1. Num(calls, "connect") \in Nat
            BY NumIsNat DEF IInv, CallsInv, BagOK, Fns
        <3>. QED
            BY <1>6, <3>1, ClicksHold DEF IInv, WalletInv
    <2>3. Of(calls', "disconnect") # {}
        BY <1>3
    <2>. QED
        BY <1>5, <1>6, <2>1, <2>2, <2>3 DEF IInv, WalletInv, wallet, SameCalls, SameIn
<1>8. PoolInv' /\ FormsInv' /\ CircuitInv' /\ ClicksInv'
    BY <1>4, <1>6, PoolStays, FormsStay, CircuitsStay, ClicksHold DEF IInv
<1>. QED
    BY <1>3, <1>7, <1>8 DEF IInv

LEMMA DisconnectedHolds ==
    ASSUME IInv, NEW c \in DOMAIN calls, Disconnected(c)
    PROVE  IInv'
<1>1. /\ c.fn = "disconnect" /\ Ends(c)
      /\ UNCHANGED <<handlers, unheard, stale, forms, cache, pool>>
      /\ Answer \/ Fault
      /\ provider' = provider \/ provider' = [connected |-> FALSE, account |-> None]
      /\ store' = [store EXCEPT !.isConnected = FALSE, !.walletAddress = None,
                                !.balance = None]
    BY DEF Disconnected
<1>2. CallsInv' /\ OthersSame(calls', calls, "disconnect")
    BY <1>1, EndsOne DEF IInv
<1>3. PoolSame /\ FormsSame
    BY <1>2, PartsSame
<1>4. Num(calls', "connect") = Num(calls, "connect")
    BY <1>2 DEF OthersSame, SameIn, Fns
<1>5. WalletInv'
    <2>1. ~store'.isConnected
        BY <1>1 DEF IInv, WalletInv
    <2>2. BalanceInv'
        BY <2>1 DEF BalanceInv
    <2>3. clicks' = clicks
        BY <1>1 DEF Answer, Fault
    <2>4. provider' \in [connected : BOOLEAN, account : Accounts \cup {None}]
        <3>1. CASE provider' = provider
            BY <3>1 DEF IInv, WalletInv
        <3>2. CASE provider' = [connected |-> FALSE, account |-> None]
            BY <3>2
        <3>. QED
            BY <1>1, <3>1, <3>2
    <2>5. /\ store' \in [isConnected : BOOLEAN, isConnecting : BOOLEAN,
                         walletAddress : Accounts \cup {None}, balance : Accounts \cup {None}]
          /\ store'.walletAddress = None /\ store'.isConnecting = store.isConnecting
        BY <1>1 DEF IInv, WalletInv
    <2>. QED
        BY <1>1, <1>4, <2>1, <2>2, <2>3, <2>4, <2>5 DEF IInv, WalletInv
<1>6. PoolInv' /\ FormsInv' /\ CircuitInv' /\ ClicksInv'
    BY <1>1, <1>3, PoolStays, FormsStay, CircuitsStay, ClicksHold DEF IInv
<1>. QED
    BY <1>2, <1>5, <1>6 DEF IInv

\* What the handlers of an account change start: one call for each handler.
LEMMA HandlersStart ==
    ASSUME NEW b, BagOK(b), NEW e, CallOK(e), NEW k \in Nat \ {0},
           NEW m, m = [c \in {e} |-> k], NEW n, n = b (+) m
    PROVE  /\ BagOK(n)
           /\ OthersSame(n, b, e.fn)
           /\ Of(b, e.fn) \subseteq Of(n, e.fn)
           /\ e \in Of(n, e.fn)
<1>1. IsCalls(m) /\ DOMAIN m = {e}
    BY FS_Singleton DEF IsCalls
<1>2. \A fn \in Fns : fn # e.fn => Of(m, fn) = {}
    BY <1>1 DEF Of
<1>3. /\ IsCalls(n)
      /\ DOMAIN n = DOMAIN b \cup DOMAIN m
      /\ \A fn \in Fns : Of(m, fn) = {} => SameIn(n, b, fn)
    BY <1>1, CallsAdded DEF BagOK
<1>4. OthersSame(n, b, e.fn)
    BY <1>2, <1>3 DEF OthersSame
<1>. QED
    BY <1>1, <1>3, <1>4 DEF BagOK, Of

LEMMA SwitchHolds ==
    ASSUME IInv, NEW a \in Accounts \cup {None}, Switch(a)
    PROVE  IInv'
<1>1. /\ Click /\ UNCHANGED <<handlers, stale, forms, cache>>
      /\ provider' = [provider EXCEPT !.account = a]
    BY DEF Switch
<1>2. provider' \in [connected : BOOLEAN, account : Accounts \cup {None}] /\ provider'.account = a
    BY <1>1 DEF IInv, WalletInv
<1>3. /\ handlers \in Nat /\ Num(calls, "connect") \in Nat
      /\ handlers + Num(calls, "connect") <= clicks'
    <2>1. Num(calls, "connect") \in Nat
        BY NumIsNat DEF IInv, CallsInv, BagOK, Fns
    <2>. QED
        BY <1>1, <2>1, ClicksHold DEF IInv, WalletInv
<1>4. CASE handlers = 0
    <2>1. unheard' = TRUE /\ UNCHANGED <<store, calls, pool>>
        BY <1>4 DEF Switch
    <2>2. CallsInv' /\ WalletSame /\ PoolSame /\ FormsSame
        BY <2>1 DEF IInv, CallsInv, WalletSame, PoolSame, FormsSame, SameCalls, SameIn
    <2>3. BalanceInv'
        BY <1>1, <2>1 DEF IInv, WalletInv, BalanceInv
    <2>4. WalletInv'
        BY <1>1, <1>2, <1>3, <2>1, <2>3 DEF IInv, WalletInv
    <2>5. PoolInv' /\ FormsInv' /\ CircuitInv' /\ ClicksInv'
        BY <1>1, <2>1, <2>2, PoolStays, FormsStay, CircuitsStay, ClicksHold DEF IInv
    <2>. QED
        BY <2>2, <2>4, <2>5 DEF IInv
<1>5. CASE handlers # 0
    <2>. DEFINE e == IF a = None THEN Call("disconnect", "wallet", None, 0, "") ELSE Refresh(a)
                m == [c \in {e} |-> handlers]
                b == calls
                n == calls'
                w == IF store'.isConnected THEN Watched ELSE EmptyBag
                s == b (+) m
    <2>1. /\ unheard' = FALSE
          /\ store' = IF a = None THEN store ELSE setWallet(a)
          /\ calls' = calls (+) [c \in DOMAIN HandlerCalls(a) |-> handlers]
                         (+) (IF store'.isConnected THEN Watched ELSE EmptyBag)
          /\ pool' = IF store'.isConnected THEN PoolWatched ELSE pool
        BY <1>5 DEF Switch, AccountChanged
    <2>2. CallOK(e) /\ e.fn = (IF a = None THEN "disconnect" ELSE "refresh")
          /\ (a # None => e.at = "balance")
        BY DEF CallOK, CallType, Refresh, Call, Fns, Places
    <2>3. DOMAIN HandlerCalls(a) = {e}
        BY OneIsCalls DEF HandlerCalls, AccountChanged
    <2>4. n = s (+) w /\ (w = One(Fetch) \/ w = EmptyBag)
        BY <2>1, <2>3 DEF Watched
    <2>5. w = One(Fetch) <=> (store'.isConnected /\ Comes)
        <3>1. One(Fetch) # EmptyBag
            BY OneIsCalls
        <3>. QED
            BY <3>1 DEF Watched
    <2>. HIDE DEF e, b, n, w
    <2>6. BagOK(b) /\ handlers \in Nat \ {0}
        BY <1>3, <1>5 DEF IInv, CallsInv, b
    <2>7. /\ BagOK(s)
          /\ OthersSame(s, b, e.fn)
          /\ Of(b, e.fn) \subseteq Of(s, e.fn)
          /\ e \in Of(s, e.fn)
        BY <2>2, <2>6, HandlersStart
    <2>. HIDE DEF s
    <2>8. /\ BagOK(n)
          /\ OthersSame(n, s, "fetch")
          /\ Of(s, "fetch") \subseteq Of(n, "fetch")
          /\ w = One(Fetch) => Of(n, "fetch") # {}
        BY <2>4, <2>7, MaybeFetched
    <2>9. /\ CallsInv'
          /\ Num(calls', "connect") = Num(calls, "connect")
          /\ Of(calls', "connect") = Of(calls, "connect")
          /\ SameCalls("init") /\ FormsSame
          /\ Of(calls, "fetch") \subseteq Of(calls', "fetch")
          /\ store'.isConnected /\ Comes => Of(calls', "fetch") # {}
          /\ a = None => Of(calls', "disconnect") # {} /\ Of(calls', "refresh") = Of(calls, "refresh")
          /\ a # None => e \in Of(calls', "refresh")
        BY <2>2, <2>5, <2>7, <2>8
           DEF OthersSame, SameIn, SameCalls, FormsSame, Fns, CallsInv, n, b
    <2>10. WalletInv'
        <3>1. CASE a = None
            <4>1. store' = store /\ stale' = stale
                BY <1>1, <2>1, <3>1
            <4>2. BalanceInv'
                BY <2>9, <3>1, <4>1 DEF IInv, WalletInv, BalanceInv
            <4>. QED
                BY <1>1, <1>2, <1>3, <2>9, <3>1, <4>1, <4>2 DEF IInv, WalletInv
        <3>2. CASE a # None
            <4>1. /\ store' \in [isConnected : BOOLEAN, isConnecting : BOOLEAN,
                                 walletAddress : Accounts \cup {None},
                                 balance : Accounts \cup {None}]
                  /\ store'.isConnected /\ store'.walletAddress = a
                  /\ store'.isConnecting = store.isConnecting
                BY <2>1, <3>2 DEF IInv, WalletInv, setWallet
            <4>2. BalanceInv'
                BY <2>2, <2>9, <3>2 DEF BalanceInv
            <4>. QED
                BY <1>1, <1>2, <1>3, <2>9, <3>2, <4>1, <4>2 DEF IInv, WalletInv
        <3>. QED
            BY <3>1, <3>2
    <2>11. PoolInv'
        BY <2>1, <2>9 DEF IInv, PoolInv, SameCalls, SameIn, PoolWatched
    <2>12. FormsInv' /\ CircuitInv' /\ ClicksInv'
        BY <1>1, <2>9, FormsStay, CircuitsStay, ClicksHold DEF IInv
    <2>. QED
        BY <2>9, <2>10, <2>11, <2>12 DEF IInv
<1>. QED
    BY <1>4, <1>5

-----------------------------------------------------------------------------
(***************************************************************************)
(* The pool's steps and the circuits'.                                     *)
(***************************************************************************)

LEMMA handleInitializePoolHolds ==
    ASSUME IInv, handleInitializePool
    PROVE  IInv'
<1>. DEFINE d == Call("init", "wallet", store.walletAddress, 0, "")
<1>1. CallOK(d) /\ d.fn = "init"
    BY DEF IInv, WalletInv, CallOK, CallType, Call, Fns, Places
<1>2. calls' = calls (+) One(d)
    BY DEF handleInitializePool
<1>. HIDE DEF d
<1>3. /\ CallsInv'
      /\ Num(calls', "init") = Num(calls, "init") + 1
      /\ OthersSame(calls', calls, "init")
    BY <1>1, <1>2, StartsOne DEF IInv
<1>4. WalletSame /\ FormsSame
    BY <1>3, PartsSame
<1>5. /\ Click /\ UNCHANGED <<wallet, forms, cache>>
      /\ ~pool.loading /\ ~pool.initializing
      /\ pool' = [pool EXCEPT !.initializing = TRUE]
    BY DEF handleInitializePool
<1>6. PoolInv'
    <2>1. Num(calls', "init") = 1
        BY <1>3, <1>5 DEF IInv, PoolInv
    <2>2. /\ pool' \in [loading : BOOLEAN, initializing : BOOLEAN,
                        isInitialized : {"unknown", "no", "yes"}]
          /\ pool'.initializing /\ pool'.loading = pool.loading
        BY <1>5 DEF IInv, PoolInv
    <2>. QED
        BY <1>5, <2>1, <2>2 DEF PoolInv
<1>7. WalletInv' /\ FormsInv' /\ CircuitInv' /\ ClicksInv'
    BY <1>4, <1>5, WalletStays, FormsStay, CircuitsStay, ClicksHold DEF IInv
<1>. QED
    BY <1>3, <1>6, <1>7 DEF IInv

LEMMA NodeReadsHolds ==
    ASSUME IInv, NEW c \in DOMAIN calls, NodeReads(c)
    PROVE  IInv'
<1>. DEFINE d == [c EXCEPT !.at = "answered", !.read = IF created THEN "yes" ELSE "no"]
<1>1. /\ Answer /\ UNCHANGED <<wallet, forms, cache, pool>>
      /\ c.fn \in {"fetch", "init"} /\ c.at = "sent" /\ GoesOn(c, d)
    BY DEF NodeReads
<1>2. CallOK(c)
    BY DEF IInv, CallsInv, BagOK
<1>3. CallOK(d) /\ d.fn = c.fn /\ d.at = "answered"
    BY <1>1, <1>2 DEF CallOK, CallType, Places
<1>. HIDE DEF d
<1>4. /\ CallsInv'
      /\ \A fn \in Fns : Num(calls', fn) = Num(calls, fn)
      /\ d \in Of(calls', c.fn)
      /\ OthersSame(calls', calls, c.fn)
    BY <1>1, <1>3, GoesOnOne DEF IInv
<1>5. WalletSame /\ FormsSame
    BY <1>1, <1>4, PartsSame
<1>6. PoolInv'
    <2>1. Num(calls', "init") = Num(calls, "init")
        BY <1>4 DEF Fns
    <2>2. CASE c.fn = "fetch"
        <3>1. Of(calls', "fetch") # {}
            BY <1>4, <2>2
        <3>. QED
            BY <1>1, <2>1, <3>1 DEF IInv, PoolInv
    <2>3. CASE c.fn = "init"
        <3>1. d \in Of(calls', "init")
            BY <1>4, <2>3
        <3>. QED
            BY <1>1, <1>3, <2>1, <3>1 DEF IInv, PoolInv
    <2>. QED
        BY <1>1, <2>2, <2>3
<1>7. WalletInv' /\ FormsInv' /\ CircuitInv' /\ ClicksInv'
    BY <1>1, <1>5, WalletStays, FormsStay, CircuitsStay, ClicksHold DEF IInv
<1>. QED
    BY <1>4, <1>6, <1>7 DEF IInv

LEMMA FetchEndsHolds ==
    ASSUME IInv, NEW c \in DOMAIN calls, FetchEnds(c)
    PROVE  IInv'
<1>1. /\ Answer \/ Fault
      /\ UNCHANGED <<wallet, forms, cache>>
      /\ c.fn \in {"fetch", "init"} /\ c.at = "answered" /\ Ends(c)
    BY DEF FetchEnds
<1>2. CallOK(c) /\ c.read \in {"no", "yes"}
    BY <1>1 DEF IInv, CallsInv, BagOK, CallOK, CallType
<1>3. /\ pool' \in [loading : BOOLEAN, initializing : BOOLEAN,
                    isInitialized : {"unknown", "no", "yes"}]
      /\ ~pool'.loading
      /\ pool'.initializing = IF c.fn = "init" THEN FALSE ELSE pool.initializing
    BY <1>2 DEF FetchEnds, Fetched, IInv, PoolInv
<1>4. /\ CallsInv'
      /\ Num(calls', c.fn) + 1 = Num(calls, c.fn)
      /\ Num(calls', c.fn) \in Nat
      /\ OthersSame(calls', calls, c.fn)
    BY <1>1, EndsOne DEF IInv
<1>5. WalletSame /\ FormsSame
    BY <1>1, <1>4, PartsSame
<1>6. PoolInv'
    <2>1. CASE c.fn = "fetch"
        <3>1. Num(calls', "init") = Num(calls, "init")
            BY <1>4, <2>1 DEF OthersSame, SameIn, Fns
        <3>. QED
            BY <1>3, <2>1, <3>1 DEF IInv, PoolInv
    <2>2. CASE c.fn = "init"
        BY <1>3, <1>4, <2>2 DEF IInv, PoolInv
    <2>. QED
        BY <1>1, <2>1, <2>2
<1>7. WalletInv' /\ FormsInv' /\ CircuitInv' /\ ClicksInv'
    BY <1>1, <1>5, WalletStays, FormsStay, CircuitsStay, ClicksHold DEF IInv
<1>. QED
    BY <1>4, <1>6, <1>7 DEF IInv

LEMMA PoolInitializedHolds ==
    ASSUME IInv, NEW c \in DOMAIN calls, PoolInitialized(c)
    PROVE  IInv'
<1>. DEFINE d == [c EXCEPT !.at = "sent"]
<1>1. /\ Answer /\ UNCHANGED <<wallet, forms, cache>>
      /\ c.fn = "init" /\ c.at = "confirm" /\ GoesOn(c, d)
      /\ pool' = [pool EXCEPT !.loading = TRUE]
    BY DEF PoolInitialized
<1>2. CallOK(c)
    BY DEF IInv, CallsInv, BagOK
<1>3. CallOK(d) /\ d.fn = c.fn /\ d.at = "sent"
    BY <1>1, <1>2 DEF CallOK, CallType, Places
<1>. HIDE DEF d
<1>4. /\ CallsInv'
      /\ \A fn \in Fns : Num(calls', fn) = Num(calls, fn)
      /\ d \in Of(calls', "init")
      /\ OthersSame(calls', calls, "init")
    BY <1>1, <1>3, GoesOnOne DEF IInv
<1>5. WalletSame /\ FormsSame
    BY <1>4, PartsSame
<1>6. PoolInv'
    <2>1. Num(calls', "init") = Num(calls, "init")
        BY <1>4 DEF Fns
    <2>. QED
        BY <1>1, <1>3, <1>4, <2>1 DEF IInv, PoolInv
<1>7. WalletInv' /\ FormsInv' /\ CircuitInv' /\ ClicksInv'
    BY <1>1, <1>5, WalletStays, FormsStay, CircuitsStay, ClicksHold DEF IInv
<1>. QED
    BY <1>4, <1>6, <1>7 DEF IInv

LEMMA NoCallsMove ==
    ASSUME CallsInv, UNCHANGED calls
    PROVE  CallsInv' /\ WalletSame /\ PoolSame /\ FormsSame
BY DEF CallsInv, WalletSame, PoolSame, FormsSame, SameCalls, SameIn

LEMMA PoolAppearsHolds ==
    ASSUME IInv, PoolAppears
    PROVE  IInv'
BY NoCallsMove, WalletStays, PoolStays, FormsStay, CircuitsStay, ClicksHold
   DEF PoolAppears, IInv

LEMMA CircuitArrivesHolds ==
    ASSUME IInv, NEW name \in Circuits, CircuitArrives(name)
    PROVE  IInv'
<1>1. /\ Answer \/ Fault
      /\ UNCHANGED <<fetched, wallet, forms, calls, pool>>
      /\ circuits[name] = "fetching"
      /\ \/ circuits' = [circuits EXCEPT ![name] = "ready"]
         \/ circuits' = [circuits EXCEPT ![name] = "broken"]
    BY DEF CircuitArrives
<1>2. CircuitInv'
    BY <1>1 DEF IInv, CircuitInv
<1>. QED
    BY <1>1, <1>2, NoCallsMove, WalletStays, PoolStays, FormsStay, ClicksHold DEF IInv

\* A circuit that is missing is fetched, for the first time.
LEMMA GetNoirHolds ==
    ASSUME CircuitInv, NEW name \in Circuits, GetNoir(name)
    PROVE  CircuitInv'
<1>1. CASE Missing(name)
    BY <1>1 DEF GetNoir, Missing, CircuitInv
<1>2. CASE ~ Missing(name)
    BY <1>2, CircuitsStay DEF GetNoir
<1>. QED
    BY <1>1, <1>2

-----------------------------------------------------------------------------
(***************************************************************************)
(* The forms' steps.                                                       *)
(***************************************************************************)

\* A call whose function has a flag is the only call of its function.
LEMMA OnlyOne ==
    ASSUME CallsInv, NEW c \in DOMAIN calls, NEW v \in BOOLEAN,
           Num(calls, c.fn) = IF v THEN 1 ELSE 0
    PROVE  /\ v
           /\ Num(calls, c.fn) = 1
           /\ \A e \in Of(calls, c.fn) : e = c
<1>1. IsCalls(calls) /\ c \in Of(calls, c.fn)
    BY DEF CallsInv, BagOK, Of
<1>2. v
    BY <1>1, NumIsFew
<1>3. Num(calls, c.fn) = 1
    BY <1>2
<1>. QED
    BY <1>1, <1>2, <1>3, NumIsFew

\* A deposit that goes on without storing its note is still the only one.
LEMMA DepositMoves ==
    ASSUME CallsInv, DepositInv, NEW c \in DOMAIN calls, NEW d, CallOK(d), GoesOn(c, d),
           c.fn = "deposit", d.fn = "deposit", c.at # "balance", d.at # "balance",
           UNCHANGED <<form, notes, offered, unseen, clicks>>
    PROVE  DepositInv'
<1>1. /\ form.loading
      /\ Num(calls, "deposit") = 1
      /\ \A e \in Of(calls, "deposit") : e = c
    BY OnlyOne DEF DepositInv
<1>2. /\ Num(calls', "deposit") = 1
      /\ \A e \in Of(calls', "deposit") : e = d
    BY <1>1, GoesOnOne DEF Fns
<1>3. Storing = {} /\ Storing' = {}
    BY <1>1, <1>2 DEF Storing
<1>4. Of(calls, "deposit") # Storing
    BY <1>3 DEF Of
<1>5. NumberInv'
    BY <1>4 DEF DepositInv, NumberInv
<1>. QED
    BY <1>1, <1>2, <1>3, <1>5 DEF DepositInv

LEMMA WithdrawMoves ==
    ASSUME CallsInv, WithdrawInv, NEW c \in DOMAIN calls, NEW d, CallOK(d), GoesOn(c, d),
           c.fn = "withdraw", d.fn = "withdraw", d.note \in notes.saved,
           withdrawal' \in [loading : BOOLEAN, proofGenerating : BOOLEAN],
           withdrawal'.loading = withdrawal.loading,
           withdrawal'.proofGenerating => withdrawal.proofGenerating,
           notes' \in [saved : SUBSET Nat, used : SUBSET Nat],
           notes'.saved = notes.saved, notes'.used \subseteq notes.saved
    PROVE  WithdrawInv'
<1>1. /\ Num(calls', "withdraw") = Num(calls, "withdraw")
      /\ Of(calls', "withdraw") \subseteq Of(calls, "withdraw") \cup {d}
    BY GoesOnOne DEF Fns
<1>. QED
    BY <1>1 DEF WithdrawInv

LEMMA handleDepositHolds ==
    ASSUME IInv, handleDeposit
    PROVE  IInv'
<1>. DEFINE d == Call("deposit", "hashes", None, 0, "")
<1>1. CallOK(d) /\ d.fn = "deposit" /\ d.at = "hashes"
    BY DEF CallOK, CallType, Call, Fns, Places
<1>2. calls' = calls (+) One(d)
    BY DEF handleDeposit
<1>. HIDE DEF d
<1>3. /\ CallsInv'
      /\ Num(calls', "deposit") = Num(calls, "deposit") + 1
      /\ Of(calls', "deposit") = Of(calls, "deposit") \cup {d}
      /\ OthersSame(calls', calls, "deposit")
    BY <1>1, <1>2, StartsOne DEF IInv
<1>4. WalletSame /\ PoolSame /\ SameCalls("withdraw")
    <2>1. SameCalls("withdraw")
        BY <1>3 DEF OthersSame, SameCalls, Fns
    <2>. QED
        BY <1>3, <2>1, PartsSame
<1>5. /\ Click /\ GetNoir("hashes")
      /\ UNCHANGED <<wallet, withdrawal, notes, offered, unseen, pool>>
      /\ ~form.showNote /\ ~form.loading
      /\ form' = [form EXCEPT !.loading = TRUE, !.depositNote = 0]
    BY DEF handleDeposit, DepositButton
<1>6. DepositInv'
    <2>1. Of(calls, "deposit") = {} /\ Num(calls', "deposit") = 1
        <3>1. Num(calls, "deposit") = 0
            BY <1>5 DEF IInv, FormsInv, DepositInv
        <3>2. IsCalls(calls)
            BY DEF IInv, CallsInv, BagOK
        <3>. QED
            BY <1>3, <3>1, <3>2, NumIsFew
    <2>2. Storing = {} /\ Storing' = {}
        BY <1>1, <1>3, <2>1 DEF Storing
    <2>3. /\ form' \in [loading : BOOLEAN, showNote : BOOLEAN, depositNote : Nat]
          /\ form'.loading /\ ~form'.showNote /\ form'.depositNote = 0
        BY <1>5 DEF IInv, FormsInv, DepositInv
    <2>4. NumberInv'
        <3>1. PICK k \in Nat : notes.saved = 1 .. k /\ k <= clicks + 1
            BY DEF IInv, FormsInv, DepositInv, NumberInv
        <3>2. clicks \in Nat /\ clicks' = clicks + 1
            BY <1>5, ClicksHold DEF IInv
        <3>3. k <= clicks' + 1 /\ k + 1 <= clicks' + 1
            BY <3>1, <3>2
        <3>4. notes'.saved = 1 .. k
            BY <1>5, <3>1
        <3>. QED
            BY <3>3, <3>4 DEF NumberInv
    <2>. QED
        BY <1>5, <2>1, <2>2, <2>3, <2>4 DEF IInv, FormsInv, DepositInv
<1>7. WithdrawInv'
    BY <1>4, <1>5, WithdrawStays DEF IInv, FormsInv
<1>8. CircuitInv'
    BY <1>5, GetNoirHolds DEF IInv, Circuits
<1>9. WalletInv' /\ PoolInv' /\ ClicksInv'
    BY <1>4, <1>5, WalletStays, PoolStays, ClicksHold DEF IInv
<1>. QED
    BY <1>3, <1>6, <1>7, <1>8, <1>9 DEF IInv, FormsInv

LEMMA NoteOfNat ==
    ASSUME WithdrawInv, NEW read
    PROVE  NoteOf(read) \in Nat
BY DEF WithdrawInv, NoteOf

LEMMA handleWithdrawHolds ==
    ASSUME IInv, NEW n \in offered, handleWithdraw(n)
    PROVE  IInv'
<1>. DEFINE d == Call("withdraw", "hashes", None, NoteOf(ReadNote(CopiedNote(n))), "")
<1>1. CallOK(d) /\ d.fn = "withdraw" /\ d.at = "hashes"
    <2>1. NoteOf(ReadNote(CopiedNote(n))) \in Nat
        BY NoteOfNat DEF IInv, FormsInv
    <2>. QED
        BY <2>1 DEF CallOK, CallType, Call, Fns, Places
<1>2. calls' = calls (+) One(d)
    BY DEF handleWithdraw
<1>. HIDE DEF d
<1>3. /\ CallsInv'
      /\ Num(calls', "withdraw") = Num(calls, "withdraw") + 1
      /\ Of(calls', "withdraw") = Of(calls, "withdraw") \cup {d}
      /\ OthersSame(calls', calls, "withdraw")
    BY <1>1, <1>2, StartsOne DEF IInv
<1>4. WalletSame /\ PoolSame /\ SameCalls("deposit")
    <2>1. SameCalls("deposit")
        BY <1>3 DEF OthersSame, SameCalls, Fns
    <2>. QED
        BY <1>3, <2>1, PartsSame
<1>5. /\ Click /\ GetNoir("hashes")
      /\ UNCHANGED <<wallet, form, notes, offered, unseen, pool>>
      /\ ~withdrawal.loading
      /\ withdrawal' = [loading |-> TRUE, proofGenerating |-> TRUE]
    BY DEF handleWithdraw
<1>6. WithdrawInv'
    <2>1. Num(calls', "withdraw") = 1
        BY <1>3, <1>5 DEF IInv, FormsInv, WithdrawInv
    <2>. QED
        BY <1>1, <1>3, <1>5, <2>1 DEF IInv, FormsInv, WithdrawInv
<1>7. DepositInv'
    BY <1>4, <1>5, DepositStays DEF IInv, FormsInv
<1>8. CircuitInv'
    BY <1>5, GetNoirHolds DEF IInv, Circuits
<1>9. WalletInv' /\ PoolInv' /\ ClicksInv'
    BY <1>4, <1>5, WalletStays, PoolStays, ClicksHold DEF IInv
<1>. QED
    BY <1>3, <1>6, <1>7, <1>8, <1>9 DEF IInv, FormsInv

\* A call of a form that goes on leaves the wallet, the pool and the other form.
LEMMA FormCallGoesOn ==
    ASSUME CallsInv, NEW c \in DOMAIN calls, NEW d, CallOK(d), d.fn = c.fn, GoesOn(c, d),
           c.fn \in {"deposit", "withdraw"}
    PROVE  /\ CallsInv' /\ WalletSame /\ PoolSame
           /\ c.fn = "deposit" => SameCalls("withdraw")
           /\ c.fn = "withdraw" => SameCalls("deposit")
<1>1. CallsInv' /\ OthersSame(calls', calls, c.fn)
    BY GoesOnOne
<1>2. WalletSame /\ PoolSame
    BY <1>1, PartsSame
<1>. QED
    BY <1>1, <1>2 DEF OthersSame, SameCalls, Fns

LEMMA HashedHolds ==
    ASSUME IInv, NEW c \in DOMAIN calls, Hashed(c)
    PROVE  IInv'
<1>1. Answer /\ c.at = "hashes" /\ UNCHANGED <<wallet, forms, pool>>
    BY DEF Hashed
<1>2. /\ form' = form /\ withdrawal' = withdrawal /\ notes' = notes
      /\ offered' = offered /\ unseen' = unseen /\ clicks' = clicks
    BY <1>1 DEF forms, Answer
<1>3. CallOK(c)
    BY DEF IInv, CallsInv, BagOK
<1>4. CASE c.fn = "deposit"
    <2>. DEFINE d == [c EXCEPT !.at = "services"]
    <2>1. GoesOn(c, d) /\ UNCHANGED cache
        BY <1>4 DEF Hashed
    <2>2. CallOK(d) /\ d.fn = c.fn /\ d.at = "services"
        BY <1>3, <1>4 DEF CallOK, CallType, Places
    <2>. HIDE DEF d
    <2>3. CallsInv' /\ WalletSame /\ PoolSame /\ SameCalls("withdraw")
        BY <1>4, <2>1, <2>2, FormCallGoesOn DEF IInv
    <2>4. DepositInv'
        BY <1>1, <1>2, <1>4, <2>1, <2>2, DepositMoves DEF IInv, FormsInv
    <2>5. WithdrawInv'
        BY <1>2, <2>3, WithdrawStays DEF IInv, FormsInv
    <2>6. WalletInv' /\ PoolInv' /\ CircuitInv' /\ ClicksInv'
        BY <1>1, <2>1, <2>3, WalletStays, PoolStays, CircuitsStay, ClicksHold DEF IInv
    <2>. QED
        BY <2>3, <2>4, <2>5, <2>6 DEF IInv, FormsInv
<1>5. CASE c.fn = "withdraw"
    <2>. DEFINE d == [c EXCEPT !.at = "withdrawal"]
    <2>1. GoesOn(c, d) /\ GetNoir("withdrawal") /\ c.note \in notes.saved
        BY <1>5 DEF Hashed, Usable
    <2>2. CallOK(d) /\ d.fn = c.fn /\ d.note = c.note
        BY <1>3, <1>5 DEF CallOK, CallType, Places
    <2>. HIDE DEF d
    <2>3. CallsInv' /\ WalletSame /\ PoolSame /\ SameCalls("deposit")
        BY <1>5, <2>1, <2>2, FormCallGoesOn DEF IInv
    <2>4. WithdrawInv'
        <3>1. /\ withdrawal' \in [loading : BOOLEAN, proofGenerating : BOOLEAN]
              /\ notes' \in [saved : SUBSET Nat, used : SUBSET Nat]
              /\ notes'.used \subseteq notes.saved
            BY <1>2 DEF IInv, FormsInv, WithdrawInv
        <3>. QED
            BY <1>2, <1>5, <2>1, <2>2, <3>1, WithdrawMoves DEF IInv, FormsInv
    <2>5. DepositInv'
        BY <1>1, <1>2, <2>3, DepositStays DEF IInv, FormsInv
    <2>6. CircuitInv'
        BY <2>1, GetNoirHolds DEF IInv, Circuits
    <2>7. WalletInv' /\ PoolInv' /\ ClicksInv'
        BY <1>1, <2>3, WalletStays, PoolStays, ClicksHold DEF IInv
    <2>. QED
        BY <2>3, <2>4, <2>5, <2>6, <2>7 DEF IInv, FormsInv
<1>. QED
    BY <1>4, <1>5 DEF Hashed

LEMMA WitnessedHolds ==
    ASSUME IInv, NEW c \in DOMAIN calls, Witnessed(c)
    PROVE  IInv'
<1>. DEFINE d == [c EXCEPT !.at = "services"]
<1>1. /\ Answer /\ c.at = "withdrawal" /\ GoesOn(c, d)
      /\ withdrawal' = [withdrawal EXCEPT !.proofGenerating = FALSE]
      /\ UNCHANGED <<wallet, form, notes, offered, unseen, cache, pool>>
    BY DEF Witnessed
<1>2. CallOK(c) /\ c.fn = "withdraw"
    BY <1>1 DEF IInv, CallsInv, BagOK, CallOK
<1>3. CallOK(d) /\ d.fn = "withdraw" /\ d.note = c.note
    BY <1>2 DEF CallOK, CallType, Places
<1>. HIDE DEF d
<1>4. CallsInv' /\ WalletSame /\ PoolSame /\ SameCalls("deposit")
    BY <1>1, <1>2, <1>3, FormCallGoesOn DEF IInv
<1>5. WithdrawInv'
    <2>1. c.note \in notes.saved
        BY <1>1, <1>2 DEF IInv, FormsInv, WithdrawInv, Of
    <2>2. /\ withdrawal' \in [loading : BOOLEAN, proofGenerating : BOOLEAN]
          /\ withdrawal'.loading = withdrawal.loading
          /\ ~withdrawal'.proofGenerating
        BY <1>1 DEF IInv, FormsInv, WithdrawInv
    <2>3. /\ notes' \in [saved : SUBSET Nat, used : SUBSET Nat]
          /\ notes'.saved = notes.saved /\ notes'.used \subseteq notes.saved
        BY <1>1 DEF IInv, FormsInv, WithdrawInv
    <2>. QED
        BY <1>1, <1>2, <1>3, <2>1, <2>2, <2>3, WithdrawMoves DEF IInv, FormsInv
<1>6. DepositInv'
    BY <1>1, <1>4, DepositStays DEF IInv, FormsInv
<1>7. WalletInv' /\ PoolInv' /\ CircuitInv' /\ ClicksInv'
    BY <1>1, <1>4, WalletStays, PoolStays, CircuitsStay, ClicksHold DEF IInv
<1>. QED
    BY <1>4, <1>5, <1>6, <1>7 DEF IInv, FormsInv

\* A form's call goes on and changes nothing else.
LEMMA FormCallHolds ==
    ASSUME IInv, NEW c \in DOMAIN calls, NEW d, CallOK(d), d.fn = c.fn, GoesOn(c, d),
           c.fn \in {"deposit", "withdraw"}, d.note = c.note, Answer,
           c.at \notin {"balance", "hashes"}, d.at # "balance",
           UNCHANGED <<wallet, forms, cache, pool>>
    PROVE  IInv'
<1>1. /\ form' = form /\ withdrawal' = withdrawal /\ notes' = notes
      /\ offered' = offered /\ unseen' = unseen /\ clicks' = clicks
    BY DEF forms, Answer
<1>2. /\ CallsInv' /\ WalletSame /\ PoolSame
      /\ c.fn = "deposit" => SameCalls("withdraw")
      /\ c.fn = "withdraw" => SameCalls("deposit")
    BY FormCallGoesOn DEF IInv
<1>3. FormsInv'
    <2>1. CASE c.fn = "deposit"
        <3>1. DepositInv'
            BY <1>1, <2>1, DepositMoves DEF IInv, FormsInv
        <3>. QED
            BY <1>1, <1>2, <2>1, <3>1, WithdrawStays DEF IInv, FormsInv
    <2>2. CASE c.fn = "withdraw"
        <3>1. c.note \in notes.saved
            BY <2>2 DEF IInv, FormsInv, WithdrawInv, Of
        <3>2. /\ withdrawal' \in [loading : BOOLEAN, proofGenerating : BOOLEAN]
              /\ notes' \in [saved : SUBSET Nat, used : SUBSET Nat]
              /\ notes'.used \subseteq notes.saved
            BY <1>1 DEF IInv, FormsInv, WithdrawInv
        <3>3. WithdrawInv'
            BY <1>1, <2>2, <3>1, <3>2, WithdrawMoves DEF IInv, FormsInv
        <3>. QED
            BY <1>1, <1>2, <2>2, <3>3, DepositStays DEF IInv, FormsInv
    <2>. QED
        BY <2>1, <2>2
<1>4. WalletInv' /\ PoolInv' /\ CircuitInv' /\ ClicksInv'
    BY <1>2, WalletStays, PoolStays, CircuitsStay, ClicksHold DEF IInv
<1>. QED
    BY <1>2, <1>3, <1>4 DEF IInv

LEMMA ServedHolds ==
    ASSUME IInv, NEW c \in DOMAIN calls, Served(c)
    PROVE  IInv'
<1>. DEFINE d == [c EXCEPT !.at = "wallet", !.account = store.walletAddress]
<1>1. /\ Answer /\ c.at = "services" /\ GoesOn(c, d)
      /\ UNCHANGED <<wallet, forms, cache, pool>>
    BY DEF Served
<1>2. CallOK(c) /\ c.fn \in {"deposit", "withdraw"}
    BY <1>1 DEF IInv, CallsInv, BagOK, CallOK
<1>3. store.walletAddress \in Accounts \cup {None}
    BY DEF IInv, WalletInv
<1>4. CallOK(d) /\ d.fn = c.fn /\ d.note = c.note /\ d.at = "wallet"
    BY <1>2, <1>3 DEF CallOK, CallType, Places
<1>. HIDE DEF d
<1>. QED
    BY <1>1, <1>2, <1>4, FormCallHolds

LEMMA SignedHolds ==
    ASSUME IInv, NEW c \in DOMAIN calls, Signed(c)
    PROVE  IInv'
<1>. DEFINE d == [c EXCEPT !.at = "confirm"]
<1>1. /\ Answer /\ c.at = "wallet" /\ GoesOn(c, d)
      /\ c.fn \in {"deposit", "withdraw", "init"}
      /\ UNCHANGED <<wallet, forms, cache, pool>>
    BY DEF Signed
<1>2. CallOK(c)
    BY DEF IInv, CallsInv, BagOK
<1>3. CallOK(d) /\ d.fn = c.fn /\ d.note = c.note /\ d.at = "confirm"
    BY <1>2 DEF CallOK, CallType, Places
<1>. HIDE DEF d
<1>4. CASE c.fn \in {"deposit", "withdraw"}
    BY <1>1, <1>3, <1>4, FormCallHolds
<1>5. CASE c.fn = "init"
    <2>1. /\ CallsInv'
          /\ \A fn \in Fns : Num(calls', fn) = Num(calls, fn)
          /\ Of(calls, "init") \subseteq Of(calls', "init") \cup {c}
          /\ OthersSame(calls', calls, "init")
        BY <1>1, <1>3, <1>5, GoesOnOne DEF IInv
    <2>2. WalletSame /\ FormsSame /\ SameCalls("fetch")
        <3>1. SameCalls("fetch")
            BY <2>1 DEF OthersSame, SameCalls, Fns
        <3>. QED
            BY <2>1, <3>1, PartsSame
    <2>3. PoolInv'
        <3>1. Num(calls', "init") = Num(calls, "init")
            BY <2>1 DEF Fns
        <3>. QED
            BY <1>1, <2>1, <2>2, <3>1 DEF IInv, PoolInv, SameCalls, SameIn
    <2>4. WalletInv' /\ FormsInv' /\ CircuitInv' /\ ClicksInv'
        BY <1>1, <2>2, WalletStays, FormsStay, CircuitsStay, ClicksHold DEF IInv
    <2>. QED
        BY <2>1, <2>3, <2>4 DEF IInv
<1>. QED
    BY <1>1, <1>4, <1>5

LEMMA DepositConfirmedHolds ==
    ASSUME IInv, NEW c \in DOMAIN calls, DepositConfirmed(c)
    PROVE  IInv'
<1>1. PICK k \in Nat :
        /\ notes.saved = 1 .. k
        /\ Of(calls, "deposit") # Storing => k + 1 <= clicks + 1
    BY DEF IInv, FormsInv, DepositInv, NumberInv
<1>2. Cardinality(notes.saved) = k
    BY <1>1, FS_Interval
<1>. DEFINE n == k + 1
            d == [c EXCEPT !.at = "balance", !.note = n]
<1>3. /\ Answer /\ c.fn = "deposit" /\ c.at = "confirm" /\ GoesOn(c, d)
      /\ notes' = [notes EXCEPT !.saved = @ \cup {n}]
      /\ form' = [form EXCEPT !.depositNote = n]
      /\ UNCHANGED <<wallet, withdrawal, offered, unseen, cache, pool>>
    BY <1>2 DEF DepositConfirmed
<1>4. CallOK(c)
    BY DEF IInv, CallsInv, BagOK
<1>5. CallOK(d) /\ d.fn = "deposit" /\ d.at = "balance" /\ d.note = n /\ n \in Nat
    <2>1. n \in Nat
        OBVIOUS
    <2>. HIDE DEF n
    <2>. QED
        BY <1>3, <1>4, <2>1 DEF CallOK, CallType, Places
<1>6. notes'.saved = notes.saved \cup {n} /\ notes'.saved = 1 .. n
    <2>1. notes'.saved = notes.saved \cup {n} /\ notes'.used = notes.used
        BY <1>3 DEF IInv, FormsInv, WithdrawInv
    <2>. QED
        BY <1>1, <2>1
<1>7. form' \in [loading : BOOLEAN, showNote : BOOLEAN, depositNote : Nat]
      /\ form'.loading = form.loading /\ form'.showNote = form.showNote
      /\ form'.depositNote = n
    BY <1>3, <1>5 DEF IInv, FormsInv, DepositInv
<1>8. notes' \in [saved : SUBSET Nat, used : SUBSET Nat] /\ notes'.used = notes.used
    BY <1>3, <1>5 DEF IInv, FormsInv, WithdrawInv
<1>. HIDE DEF d
<1>9. CallsInv' /\ WalletSame /\ PoolSame /\ SameCalls("withdraw")
    BY <1>3, <1>4, <1>5, FormCallGoesOn DEF IInv
<1>10. /\ form.loading
       /\ Num(calls, "deposit") = 1
       /\ \A e \in Of(calls, "deposit") : e = c
    BY <1>3, OnlyOne DEF IInv, FormsInv, DepositInv
<1>11. /\ Num(calls', "deposit") = 1
       /\ \A e \in Of(calls', "deposit") : e = d
       /\ d \in Of(calls', "deposit")
    BY <1>3, <1>5, <1>10, GoesOnOne DEF IInv, Fns
<1>12. /\ Storing = {}
       /\ d \in Storing' /\ (\A e \in Storing' : e = d)
       /\ Of(calls, "deposit") # Storing
       /\ Of(calls', "deposit") = Storing'
    BY <1>3, <1>5, <1>10, <1>11 DEF Storing, Of
<1>. HIDE DEF n
<1>13. DepositInv'
    <2>1. NumberInv'
        BY <1>1, <1>3, <1>5, <1>6, <1>12 DEF NumberInv, Answer, n
    <2>2. {e.note : e \in Storing'} = {n}
        BY <1>5, <1>12
    <2>3. notes'.saved = offered' \cup unseen' \cup {e.note : e \in Storing'}
        <3>1. notes.saved = offered \cup unseen
            BY <1>12 DEF IInv, FormsInv, DepositInv
        <3>. QED
            BY <1>3, <1>6, <2>2, <3>1
    <2>4. ~form'.showNote
        BY <1>7, <1>10 DEF IInv, FormsInv, DepositInv
    <2>5. \A e \in Storing' : e.note = form'.depositNote
        BY <1>5, <1>7, <1>12
    <2>6. form'.depositNote \in notes'.saved
        BY <1>6, <1>7
    <2>7. form'.loading
        BY <1>7, <1>10
    <2>. QED
        BY <1>7, <1>11, <2>1, <2>3, <2>4, <2>5, <2>6, <2>7 DEF DepositInv
<1>14. WithdrawInv'
    BY <1>3, <1>6, <1>8, <1>9 DEF IInv, FormsInv, WithdrawInv, SameCalls, SameIn
<1>15. WalletInv' /\ PoolInv' /\ CircuitInv' /\ ClicksInv'
    BY <1>3, <1>9, WalletStays, PoolStays, CircuitsStay, ClicksHold DEF IInv
<1>. QED
    BY <1>9, <1>13, <1>14, <1>15 DEF IInv, FormsInv

LEMMA WithdrawConfirmedHolds ==
    ASSUME IInv, NEW c \in DOMAIN calls, WithdrawConfirmed(c)
    PROVE  IInv'
<1>. DEFINE d == [c EXCEPT !.at = "balance"]
<1>1. /\ Answer /\ c.fn = "withdraw" /\ c.at = "confirm" /\ GoesOn(c, d)
      /\ notes' = [notes EXCEPT !.used = @ \cup {c.note}]
      /\ UNCHANGED <<wallet, form, withdrawal, offered, unseen, cache, pool>>
    BY DEF WithdrawConfirmed
<1>2. CallOK(c)
    BY DEF IInv, CallsInv, BagOK
<1>3. CallOK(d) /\ d.fn = "withdraw" /\ d.note = c.note
    BY <1>1, <1>2 DEF CallOK, CallType, Places
<1>. HIDE DEF d
<1>4. CallsInv' /\ WalletSame /\ PoolSame /\ SameCalls("deposit")
    BY <1>1, <1>2, <1>3, FormCallGoesOn DEF IInv
<1>5. c.note \in notes.saved
    BY <1>1 DEF IInv, FormsInv, WithdrawInv, Of
<1>6. /\ notes' \in [saved : SUBSET Nat, used : SUBSET Nat]
      /\ notes'.saved = notes.saved /\ notes'.used \subseteq notes.saved
    BY <1>1, <1>5 DEF IInv, FormsInv, WithdrawInv
<1>7. WithdrawInv'
    <2>1. /\ withdrawal' \in [loading : BOOLEAN, proofGenerating : BOOLEAN]
          /\ withdrawal' = withdrawal
        BY <1>1 DEF IInv, FormsInv, WithdrawInv
    <2>. QED
        BY <1>1, <1>3, <1>5, <1>6, <2>1, WithdrawMoves DEF IInv, FormsInv
<1>8. DepositInv'
    BY <1>1, <1>4, <1>6, DepositStays DEF IInv, FormsInv
<1>9. WalletInv' /\ PoolInv' /\ CircuitInv' /\ ClicksInv'
    BY <1>1, <1>4, WalletStays, PoolStays, CircuitsStay, ClicksHold DEF IInv
<1>. QED
    BY <1>4, <1>7, <1>8, <1>9 DEF IInv, FormsInv

\* The one deposit ends, whether or not it has stored its note.
LEMMA DepositEnds ==
    ASSUME CallsInv, DepositInv, NEW c \in DOMAIN calls, Ends(c), c.fn = "deposit",
           form' = [form EXCEPT !.loading = FALSE, !.showNote = form'.showNote],
           form'.showNote \in BOOLEAN, form'.showNote => form'.depositNote \in offered',
           notes' = notes, clicks' = clicks,
           offered' \cup unseen' = offered \cup unseen \cup {e.note : e \in Storing}
    PROVE  DepositInv'
<1>1. form.loading /\ Num(calls, "deposit") = 1
    BY OnlyOne DEF DepositInv
<1>2. Num(calls', "deposit") = 0 /\ Of(calls', "deposit") = {}
    BY <1>1, EndsOne
<1>3. Storing' = {} /\ {e.note : e \in Storing'} = {}
    BY <1>2 DEF Storing
<1>4. NumberInv'
    BY <1>2, <1>3 DEF DepositInv, NumberInv
<1>5. /\ form' \in [loading : BOOLEAN, showNote : BOOLEAN, depositNote : Nat]
      /\ ~form'.loading /\ form'.depositNote = form.depositNote
    BY DEF DepositInv
<1>6. notes'.saved = offered' \cup unseen' \cup {e.note : e \in Storing'}
    BY <1>3 DEF DepositInv
<1>. QED
    BY <1>2, <1>3, <1>4, <1>5, <1>6 DEF DepositInv

LEMMA WithdrawEnds ==
    ASSUME CallsInv, WithdrawInv, NEW c \in DOMAIN calls, Ends(c), c.fn = "withdraw",
           withdrawal' = [loading |-> FALSE, proofGenerating |-> FALSE], UNCHANGED notes
    PROVE  WithdrawInv'
<1>1. Num(calls, "withdraw") = 1
    BY OnlyOne DEF WithdrawInv
<1>2. Num(calls', "withdraw") = 0 /\ Of(calls', "withdraw") = {}
    BY <1>1, EndsOne
<1>. QED
    BY <1>2 DEF WithdrawInv

\* What a call that ends leaves alone.
LEMMA FormCallEnds ==
    ASSUME CallsInv, NEW c \in DOMAIN calls, Ends(c), c.fn \in {"deposit", "withdraw"}
    PROVE  /\ CallsInv' /\ WalletSame /\ PoolSame
           /\ c.fn = "deposit" => SameCalls("withdraw")
           /\ c.fn = "withdraw" => SameCalls("deposit")
<1>1. CallsInv' /\ OthersSame(calls', calls, c.fn)
    BY EndsOne
<1>2. WalletSame /\ PoolSame
    BY <1>1, PartsSame
<1>. QED
    BY <1>1, <1>2 DEF OthersSame, SameCalls, Fns

\* A form writes a balance, of whatever account it was asked for.
LEMMA BalanceWritten ==
    ASSUME WalletInv, NEW a \in Accounts \cup {None},
           store' = [store EXCEPT !.balance = a], stale' = (store.walletAddress # a),
           UNCHANGED <<provider, handlers, unheard, clicks>>, WalletSame
    PROVE  WalletInv'
<1>1. /\ store' \in [isConnected : BOOLEAN, isConnecting : BOOLEAN,
                     walletAddress : Accounts \cup {None}, balance : Accounts \cup {None}]
      /\ store'.isConnected = store.isConnected /\ store'.walletAddress = store.walletAddress
      /\ store'.isConnecting = store.isConnecting /\ store'.balance = a
    BY DEF WalletInv
<1>2. BalanceInv'
    BY <1>1 DEF BalanceInv
<1>. QED
    BY <1>1, <1>2 DEF WalletInv, WalletSame, SameCalls, SameIn

LEMMA ReturnsHolds ==
    ASSUME IInv, NEW c \in DOMAIN calls, Returns(c)
    PROVE  IInv'
<1>1. /\ Answer /\ c.fn \in {"deposit", "withdraw"} /\ c.at = "balance" /\ Ends(c)
      /\ store' = [store EXCEPT !.balance = c.account]
      /\ stale' = (store.walletAddress # c.account)
      /\ UNCHANGED <<provider, handlers, unheard, notes, unseen, cache, pool>>
    BY DEF Returns
<1>2. /\ CallsInv' /\ WalletSame /\ PoolSame
      /\ c.fn = "deposit" => SameCalls("withdraw")
      /\ c.fn = "withdraw" => SameCalls("deposit")
    BY <1>1, FormCallEnds DEF IInv
<1>3. WalletInv'
    <2>1. c.account \in Accounts \cup {None}
        BY DEF IInv, CallsInv, BagOK, CallOK, CallType
    <2>2. UNCHANGED <<provider, handlers, unheard, clicks>>
        BY <1>1 DEF Answer
    <2>. QED
        BY <1>1, <1>2, <2>1, <2>2, BalanceWritten DEF IInv
<1>4. FormsInv'
    <2>1. CASE c.fn = "deposit"
        <3>1. /\ form' = [form EXCEPT !.loading = FALSE, !.showNote = TRUE]
              /\ offered' = offered \cup {form.depositNote}
              /\ UNCHANGED withdrawal
            BY <2>1 DEF Returns
        <3>2. /\ form'.showNote = TRUE /\ form'.depositNote = form.depositNote
              /\ form' = [form EXCEPT !.loading = FALSE, !.showNote = form'.showNote]
            BY <3>1 DEF IInv, FormsInv, DepositInv
        <3>3. {e.note : e \in Storing} = {form.depositNote}
            <4>1. c \in Storing
                BY <1>1, <2>1 DEF Storing, Of
            <4>. QED
                BY <4>1 DEF IInv, FormsInv, DepositInv
        <3>4. offered' \cup unseen' = offered \cup unseen \cup {e.note : e \in Storing}
            BY <1>1, <3>1, <3>3
        <3>5. /\ notes' = notes /\ clicks' = clicks
              /\ form'.showNote \in BOOLEAN /\ form'.depositNote \in offered'
            BY <1>1, <3>1, <3>2 DEF Answer
        <3>6. DepositInv'
            BY <1>1, <2>1, <3>2, <3>4, <3>5, DepositEnds DEF IInv, FormsInv
        <3>. QED
            BY <1>1, <1>2, <2>1, <3>1, <3>6, WithdrawStays DEF IInv, FormsInv
    <2>2. CASE c.fn = "withdraw"
        <3>1. /\ withdrawal' = [loading |-> FALSE, proofGenerating |-> FALSE]
              /\ UNCHANGED <<form, offered>>
            BY <2>2 DEF Returns
        <3>2. WithdrawInv'
            BY <1>1, <2>2, <3>1, WithdrawEnds DEF IInv, FormsInv
        <3>. QED
            BY <1>1, <1>2, <2>2, <3>1, <3>2, DepositStays DEF IInv, FormsInv
    <2>. QED
        BY <1>1, <2>1, <2>2
<1>5. PoolInv' /\ CircuitInv' /\ ClicksInv'
    BY <1>1, <1>2, PoolStays, CircuitsStay, ClicksHold DEF IInv
<1>. QED
    BY <1>2, <1>3, <1>4, <1>5 DEF IInv

LEMMA handleResetHolds ==
    ASSUME IInv, handleReset
    PROVE  IInv'
<1>1. /\ Click /\ form.showNote
      /\ form' = [loading |-> FALSE, showNote |-> FALSE, depositNote |-> 0]
      /\ UNCHANGED <<wallet, withdrawal, notes, offered, unseen, cache, calls, pool>>
    BY DEF handleReset
<1>2. CallsInv' /\ WalletSame /\ PoolSame /\ FormsSame
    BY <1>1, NoCallsMove DEF IInv
<1>3. DepositInv'
    <2>1. Num(calls, "deposit") = 0
        BY <1>1 DEF IInv, FormsInv, DepositInv
    <2>2. Of(calls, "deposit") = {}
        BY <2>1, NumIsFew DEF IInv, CallsInv, BagOK
    <2>3. Storing = {} /\ Of(calls', "deposit") = {} /\ Num(calls', "deposit") = 0
        BY <1>1, <2>1, <2>2 DEF Storing
    <2>4. Storing' = {}
        BY <2>3 DEF Storing
    <2>5. NumberInv'
        <3>1. PICK k \in Nat : notes.saved = 1 .. k /\ k <= clicks + 1
            BY DEF IInv, FormsInv, DepositInv, NumberInv
        <3>2. clicks \in Nat /\ clicks' = clicks + 1
            BY <1>1, ClicksHold DEF IInv
        <3>3. k <= clicks' + 1
            BY <3>1, <3>2
        <3>4. notes'.saved = 1 .. k
            BY <1>1, <3>1
        <3>. QED
            BY <2>3, <2>4, <3>3, <3>4 DEF NumberInv
    <2>. QED
        BY <1>1, <2>3, <2>4, <2>5 DEF IInv, FormsInv, DepositInv
<1>4. WithdrawInv'
    BY <1>1, <1>2, WithdrawStays DEF IInv, FormsInv, FormsSame
<1>5. WalletInv' /\ PoolInv' /\ CircuitInv' /\ ClicksInv'
    BY <1>1, <1>2, WalletStays, PoolStays, CircuitsStay, ClicksHold DEF IInv
<1>. QED
    BY <1>2, <1>3, <1>4, <1>5 DEF IInv, FormsInv

LEMMA ThrowsHolds ==
    ASSUME IInv, NEW c \in DOMAIN calls, Throws(c)
    PROVE  IInv'
<1>1. /\ c.fn \in {"deposit", "withdraw", "init"} /\ Ends(c)
      /\ c.at \notin {"sent", "answered"}
      /\ Answer \/ Fault
      /\ UNCHANGED <<wallet, notes, offered, cache>>
    BY DEF Throws
<1>2. clicks' = clicks
    BY <1>1 DEF Answer, Fault
<1>3. CASE c.fn = "deposit"
    <2>1. /\ form' = [form EXCEPT !.loading = FALSE]
          /\ unseen' = IF c.at = "balance" THEN unseen \cup {c.note} ELSE unseen
          /\ UNCHANGED <<withdrawal, pool>>
        BY <1>3 DEF Throws
    <2>2. CallsInv' /\ WalletSame /\ PoolSame /\ SameCalls("withdraw")
        BY <1>1, <1>3, FormCallEnds DEF IInv
    <2>3. /\ form.loading
          /\ \A e \in Of(calls, "deposit") : e = c
        BY <1>3, OnlyOne DEF IInv, FormsInv, DepositInv
    <2>4. /\ form'.showNote = FALSE
          /\ form' = [form EXCEPT !.loading = FALSE, !.showNote = form'.showNote]
        BY <2>1, <2>3 DEF IInv, FormsInv, DepositInv
    <2>5. unseen' = unseen \cup {e.note : e \in Storing}
        <3>1. c \in Of(calls, "deposit")
            BY <1>3 DEF Of
        <3>2. CASE c.at = "balance"
            BY <2>1, <2>3, <3>1, <3>2 DEF Storing
        <3>3. CASE c.at # "balance"
            BY <2>1, <2>3, <3>3 DEF Storing
        <3>. QED
            BY <3>2, <3>3
    <2>6. DepositInv'
        BY <1>1, <1>2, <1>3, <2>4, <2>5, DepositEnds DEF IInv, FormsInv
    <2>7. WithdrawInv'
        BY <1>1, <2>1, <2>2, WithdrawStays DEF IInv, FormsInv
    <2>8. WalletInv' /\ PoolInv' /\ CircuitInv' /\ ClicksInv'
        BY <1>1, <2>1, <2>2, WalletStays, PoolStays, CircuitsStay, ClicksHold DEF IInv
    <2>. QED
        BY <2>2, <2>6, <2>7, <2>8 DEF IInv, FormsInv
<1>4. CASE c.fn = "withdraw"
    <2>1. /\ withdrawal' = [loading |-> FALSE, proofGenerating |-> FALSE]
          /\ UNCHANGED <<form, unseen, pool>>
        BY <1>4 DEF Throws
    <2>2. CallsInv' /\ WalletSame /\ PoolSame /\ SameCalls("deposit")
        BY <1>1, <1>4, FormCallEnds DEF IInv
    <2>3. WithdrawInv'
        BY <1>1, <1>4, <2>1, WithdrawEnds DEF IInv, FormsInv
    <2>4. DepositInv'
        BY <1>1, <2>1, <2>2, DepositStays DEF IInv, FormsInv
    <2>5. WalletInv' /\ PoolInv' /\ CircuitInv' /\ ClicksInv'
        BY <1>1, <2>1, <2>2, WalletStays, PoolStays, CircuitsStay, ClicksHold DEF IInv
    <2>. QED
        BY <2>2, <2>3, <2>4, <2>5 DEF IInv, FormsInv
<1>5. CASE c.fn = "init"
    <2>1. /\ pool' = [pool EXCEPT !.initializing = FALSE]
          /\ UNCHANGED <<form, unseen, withdrawal>>
        BY <1>5 DEF Throws
    <2>2. /\ Num(calls, "init") = 1
          /\ \A e \in Of(calls, "init") : e = c
        BY <1>5, OnlyOne DEF IInv, PoolInv
    <2>3. /\ CallsInv'
          /\ Num(calls', "init") = 0
          /\ OthersSame(calls', calls, "init")
        BY <1>1, <1>5, <2>2, EndsOne DEF IInv
    <2>4. WalletSame /\ FormsSame /\ SameCalls("fetch")
        <3>1. SameCalls("fetch")
            BY <2>3 DEF OthersSame, SameCalls, Fns
        <3>. QED
            BY <2>3, <3>1, PartsSame
    <2>5. PoolInv'
        <3>1. pool.loading => Of(calls', "fetch") # {}
            BY <1>1, <2>2, <2>4 DEF IInv, PoolInv, SameCalls, SameIn
        <3>2. /\ pool' \in [loading : BOOLEAN, initializing : BOOLEAN,
                            isInitialized : {"unknown", "no", "yes"}]
              /\ ~pool'.initializing /\ pool'.loading = pool.loading
            BY <2>1 DEF IInv, PoolInv
        <3>. QED
            BY <2>3, <3>1, <3>2 DEF PoolInv
    <2>6. UNCHANGED forms
        BY <1>1, <2>1 DEF forms
    <2>7. WalletInv' /\ FormsInv' /\ CircuitInv' /\ ClicksInv'
        BY <1>1, <2>4, <2>6, WalletStays, FormsStay, CircuitsStay, ClicksHold DEF IInv
    <2>. QED
        BY <2>3, <2>5, <2>7 DEF IInv
<1>. QED
    BY <1>1, <1>3, <1>4, <1>5

-----------------------------------------------------------------------------
(***************************************************************************)
(* The invariant holds, and the properties follow from it.                 *)
(***************************************************************************)

LEMMA ResumesHolds ==
    ASSUME IInv, NEW c \in DOMAIN calls, Resumes(c)
    PROVE  IInv'
BY BalanceArrivesHolds, NodeReadsHolds, FetchEndsHolds, PoolInitializedHolds,
   HashedHolds, WitnessedHolds, ServedHolds, DepositConfirmedHolds,
   WithdrawConfirmedHolds, ReturnsHolds, ThrowsHolds
   DEF Resumes

LEMMA NextHolds == IInv /\ [Next]_vars => IInv'
<1>. SUFFICES ASSUME IInv, [Next]_vars PROVE IInv'
    OBVIOUS
<1>1. CASE handleConnect \/ handleDisconnect \/ handleInitializePool
           \/ handleDeposit \/ handleReset \/ PoolAppears
    BY <1>1, handleConnectHolds, handleDisconnectHolds, handleInitializePoolHolds,
       handleDepositHolds, handleResetHolds, PoolAppearsHolds
<1>2. CASE \E n \in offered : handleWithdraw(n)
    BY <1>2, handleWithdrawHolds
<1>3. CASE \E a \in Accounts \cup {None} : Switch(a)
    BY <1>3, SwitchHolds
<1>4. CASE \E name \in Circuits : CircuitArrives(name)
    BY <1>4, CircuitArrivesHolds
<1>5. ASSUME NEW c \in BagToSet(calls),
             \/ \E a \in Accounts : WalletConnects(c, a)
             \/ WalletRefuses(c) \/ Disconnected(c) \/ Signed(c)
             \/ c.at = "wallet" /\ Throws(c)
             \/ Resumes(c)
      PROVE  IInv'
    <2>1. c \in DOMAIN calls
        BY DEF BagToSet
    <2>. QED
        BY <1>5, <2>1, WalletConnectsHolds, WalletRefusesHolds, DisconnectedHolds,
           SignedHolds, ThrowsHolds, ResumesHolds
<1>6. CASE UNCHANGED vars
    <2>1. UNCHANGED <<wallet, forms, cache, calls, pool>> /\ Answer
        BY <1>6 DEF vars, Answer
    <2>. QED
        BY <2>1, NoCallsMove, WalletStays, PoolStays, FormsStay, CircuitsStay, ClicksHold
           DEF IInv
<1>. QED
    BY <1>1, <1>2, <1>3, <1>4, <1>5, <1>6 DEF Next

LEMMA Invariance == Spec => []IInv
BY InitHolds, NextHolds, PTL DEF Spec

LEMMA WaitingIsOf ==
    \A fn : Waiting(fn) = Of(calls, fn) /\ Count(fn) = Num(calls, fn)
BY DEF Waiting, Of, Count, Num, BagToSet

\* The variables have their types: a page has an address exactly while it is
\* connected, and no more notes and handlers than clicks (stores/wallet.ts,
\* useWallet.ts, DepositForm.vue, stores/deposits.ts).
THEOREM TypeCorrect == Spec => []TypeOK
<1>1. ASSUME IInv PROVE TypeOK
    <2>. USE <1>1
    <2>1. PICK k \in Nat : notes.saved = 1 .. k /\ k <= clicks + 1
        BY DEF IInv, FormsInv, DepositInv, NumberInv
    <2>2. clicks \in Nat /\ clicks <= MaxClicks /\ MaxClicks \in Nat
        BY PageAssumption DEF IInv, ClicksInv
    <2>3. notes.saved \subseteq 1 .. MaxClicks + 1
        BY <2>1, <2>2
    <2>4. form \in [loading : BOOLEAN, showNote : BOOLEAN, depositNote : 0 .. MaxClicks + 1]
        <3>1. form.depositNote \in 0 .. MaxClicks + 1
            BY <2>2, <2>3 DEF IInv, FormsInv, DepositInv
        <3>. QED
            BY <3>1 DEF IInv, FormsInv, DepositInv
    <2>5. handlers \in 0 .. MaxClicks
        <3>1. Num(calls, "connect") \in Nat
            BY NumIsNat DEF IInv, CallsInv, BagOK
        <3>. QED
            BY <2>2, <3>1 DEF IInv, WalletInv
    <2>. QED
        BY <2>3, <2>4, <2>5
           DEF IInv, WalletInv, PoolInv, FormsInv, WithdrawInv, TypeOK
<1>. QED
    BY <1>1, Invariance, PTL

\* A flag that disables a button is up exactly while its one call is pending, and a
\* circuit is fetched once (useWallet.ts:46-82, DepositForm.vue:140-166,
\* WithdrawForm.vue:47, poseidon.ts:13-64).
THEOREM OneAtATimeHolds == Spec => []OneAtATime
<1>1. ASSUME IInv PROVE OneAtATime
    <2>. USE <1>1
    <2>1. /\ Num(calls, "connect") = IF store.isConnecting THEN 1 ELSE 0
          /\ Num(calls, "init") = IF pool.initializing THEN 1 ELSE 0
          /\ Num(calls, "deposit") = IF form.loading THEN 1 ELSE 0
          /\ Num(calls, "withdraw") = IF withdrawal.loading THEN 1 ELSE 0
          /\ withdrawal.proofGenerating => withdrawal.loading
        BY DEF IInv, WalletInv, PoolInv, FormsInv, DepositInv, WithdrawInv
    <2>2. pool.loading => Num(calls, "fetch") + Num(calls, "init") > 0
        <3>1. Num(calls, "fetch") \in Nat /\ Num(calls, "init") \in Nat
            BY NumIsNat DEF IInv, CallsInv, BagOK
        <3>2. pool.loading => Num(calls, "fetch") # 0 \/ Num(calls, "init") # 0
            BY NumIsFew DEF IInv, CallsInv, BagOK, PoolInv
        <3>. QED
            BY <3>1, <3>2
    <2>3. \A name \in Circuits : fetched[name] <= 1
        BY DEF IInv, CircuitInv
    <2>. QED
        BY <2>1, <2>2, <2>3, WaitingIsOf DEF OneAtATime
<1>. QED
    BY <1>1, Invariance, PTL

\* The page shows the account the extension will sign with, unless a change went
\* unheard or a disconnect is under way (useWallet.ts:63-75, 84-103).
THEOREM AddressFollowsHolds == Spec => []AddressFollows
<1>1. ASSUME IInv PROVE AddressFollows
    BY <1>1, WaitingIsOf DEF IInv, WalletInv, AddressFollows
<1>. QED
    BY <1>1, Invariance, PTL

\* Once no balance is awaited, the balance beside an address is that address's,
\* unless the last answer failed or was asked for another account
\* (useWallet.ts:36-44, useDeposit.ts:163-164, useWithdraw.ts:248-249).
THEOREM BalanceFollowsHolds == Spec => []BalanceFollows
<1>1. ASSUME IInv PROVE BalanceFollows
    <2>1. \A fn : Of(calls, fn) \subseteq BagToSet(calls)
        BY DEF Of, BagToSet
    <2>. QED
        BY <1>1, <2>1 DEF IInv, WalletInv, BalanceInv, BalanceFollows
<1>. QED
    BY <1>1, Invariance, PTL

\* Every note stored is put before the user, unless the balance request after it
\* fails or is still awaited; a note on the screen stays; and its text is read as
\* that note (DepositForm.vue:34-64, 149-190, useDeposit.ts:151-175,
\* WithdrawForm.vue:26-30).
THEOREM NotesOfferedHolds == Spec => []NotesOffered
<1>1. ASSUME IInv PROVE NotesOffered
    <2>. USE <1>1
    <2>1. Storing = {d \in Waiting("deposit") : d.at = "balance"}
        BY WaitingIsOf DEF Storing
    <2>2. /\ notes.saved = offered \cup unseen \cup {c.note : c \in Storing}
          /\ form.showNote => form.depositNote \in offered
        BY DEF IInv, FormsInv, DepositInv
    <2>3. ASSUME NEW n \in offered PROVE NoteOf(ReadNote(CopiedNote(n))) = n
        <3>1. ReadNote(CopiedNote(n)).nullifierSecret = <<"nullifier", n>>
            BY DEF ReadNote, CopiedNote, Line, Strip
        <3>2. n \in notes.saved
            BY <2>2
        <3>3. \A m \in notes.saved : <<"nullifier", n>> = <<"nullifier", m>> => m = n
            OBVIOUS
        <3>. QED
            BY <3>1, <3>2, <3>3 DEF NoteOf
    <2>. QED
        BY <2>1, <2>2, <2>3 DEF NotesOffered
<1>. QED
    BY <1>1, Invariance, PTL
=============================================================================
