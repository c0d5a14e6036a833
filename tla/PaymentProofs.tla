---------------------------- MODULE PaymentProofs ----------------------------
(***************************************************************************)
(* Proofs about Payment, for any coins, markets, rates, amounts and bounds.*)
(* That the network takes what was confirmed rests on a chain of facts, one*)
(* for each place the payment passes: a maximum in the form is what its    *)
(* basis comes to at the selected speed; so is the one that is shown; an   *)
(* attempt that was planned pays the amount shown and a fee within bounds; *)
(* and an attempt that is broadcast spends coins of its payer only.        *)
(***************************************************************************)
EXTENDS Payment, FiniteSetTheorems, WellFoundedInduction, TLAPS

EtherRecords == [wei : Nat, tokens : Nat, count : Nat]

Tiers == [rate : Nat, fee : Nat, cap : Nat, tip : Nat \cup {Unknown}]

\* What a maximum was calculated from, or what a payment found.
Bases == {<<>>} \cup (Accounts \X Accounts \X SUBSET CoinRecords) \cup (Accounts \X EtherRecords)

Forms ==
  [amount : Nat, usd : Nat, edited : {"asset", "usd"}, max : BOOLEAN, maxFee : Nat \cup {Unknown}, loading : BOOLEAN,
   ref : Nat, selected : 1..3, basis : Bases, netted : 0..3]

Requested == [id : Nat, selected : 1..3, from : Accounts]

Previews ==
  [amount : Nat, usd : Nat \cup {Unknown}, fee : Nat, tier : Tiers, max : BOOLEAN, basis : Bases, netted : 0..3,
   selected : 0..3]

Errors == {"", "password", "locked", "funds", "max changed", "signing", "rejected", "timeout", "unexpected",
           "lost"}
Texts == {"", "password", "insufficient", "dust", "fee", "max changed", "went wrong"}

AttemptRecords ==
  [pc : {"none", "verify", "build", "sign", "broadcast", "taken", "refused", "record", "done", "failed"},
   from : Accounts, payer : Accounts, inputs : SUBSET CoinRecords, change : Nat, basis : Bases, nonce : Nat,
   error : Errors, seen : Texts]

WorldTyped ==
  /\ currency \in Currencies
  /\ world \in [coins : SUBSET CoinRecords, tip : Nat, ether : [Accounts -> EtherRecords]] /\ IsFiniteSet(world.coins)

WalletTyped ==
  /\ wallet \in [active : Accounts, locked : BOOLEAN, cache : [Accounts -> SUBSET CoinRecords]]
  /\ \A a \in Accounts : IsFiniteSet(wallet.cache[a])

PopupTyped ==
  /\ page \in {"send", "options", "preview", "status"}
  /\ known \in [asset : Int, gas : Int] /\ fiat \in FiatRates \cup {0}
  /\ options \in [1..3 -> Tiers] \cup {<<>>}
  /\ form \in Forms /\ shown \in Previews
  /\ screen \in [confirming : BOOLEAN, error : Texts]

AttemptsTyped ==
  /\ attempts \in [1..MaxAttempts -> AttemptRecords]
  /\ \A i \in 1..MaxAttempts : IsFiniteSet(attempts[i].inputs)

Typed == WorldTyped /\ WalletTyped /\ PopupTyped /\ AttemptsTyped /\ moves \in 0..MaxMoves

\* The fee of so many inputs at a rate, without and with a change output.
Lean(rate, a, n) == Sized(rate, a, n, FALSE)
Full(rate, a, n) == Sized(rate, a, n, TRUE)

\* A tier that Ethereum's node will take, priced at its cap.
Usable(t) == currency # "btc" => Overridable(t) /\ t.cap >= t.rate /\ t.fee = t.cap * Gas

\* A faster speed is not cheaper.
Rising(ts) == \A i \in 1..2 : ts[i].rate <= ts[i + 1].rate /\ ts[i].fee <= ts[i + 1].fee

TiersOK(ts) ==
  /\ ts \in [1..3 -> Tiers]
  /\ \A i \in 1..3 : Usable(ts[i])
  /\ currency # "btc" => Rising(ts)

OptionsOK == options # <<>> => TiersOK(options)

\* A maximum and its fee are what the basis comes to in this tier.
SweepFits(amount, fee, basis, tier) ==
  /\ basis[1] \in Accounts /\ basis[2] \in Accounts
  /\ basis = <<basis[1], basis[2], basis[3]>>
  /\ basis[3] \subseteq CoinRecords /\ IsFiniteSet(basis[3]) /\ basis[3] # {}
  /\ Sweepable(basis[3]) = basis[3]
  /\ fee = Lean(tier.rate, basis[2], Cardinality(basis[3]))
  /\ amount = Sum(basis[3]) - fee /\ amount >= Dust

EtherFits(amount, fee, basis, tier) ==
  /\ basis[1] \in Accounts /\ basis[2] \in EtherRecords
  /\ basis = <<basis[1], basis[2]>>
  /\ fee = tier.cap * Gas
  /\ amount = Max({basis[2].wei - fee, 0})

MaxFits(amount, fee, basis, tier) ==
  /\ currency = "btc" => SweepFits(amount, fee, basis, tier)
  /\ currency = "eth" => EtherFits(amount, fee, basis, tier)

FormOK ==
  /\ fiat # 0 => form.amount = form.usd \div fiat
  /\ form.max => form.edited = "asset" /\ options # <<>>
  /\ form.loading => page = "options" /\ options # <<>>
  /\ form.max /\ ~form.loading =>
       /\ form.netted = form.selected
       /\ MaxFits(form.amount, form.maxFee, form.basis, options[form.selected])

\* One maximum is calculated at a time, for the selected speed.
RequestsOK ==
  IF form.loading
    THEN \E q \in requests : requests = {q} /\ q \in Requested /\ q.id = form.ref /\ q.selected = form.selected
    ELSE requests = {}

ShownOK ==
  IF page \in {"preview", "status"}
    THEN /\ shown.amount > 0 /\ Usable(shown.tier)
         /\ currency # "btc" => shown.fee = shown.tier.cap * Gas
         /\ shown.max => shown.netted = shown.selected /\ MaxFits(shown.amount, shown.fee, shown.basis, shown.tier)
         /\ shown.usd # Unknown => \E rate \in FiatRates : shown.amount = shown.usd \div rate
    ELSE sent = {} /\ ~screen.confirming /\ \A i \in 1..MaxAttempts : attempts[i].pc = "none"

\* What a transaction leaves to the miner: between the selected rate and dust above it, and
\* for a maximum the selected rate to the unit.
FeeOK(fee, change, inputs, payer) ==
  /\ change = 0 \/ change >= Dust
  /\ fee >= IF change > 0 THEN Full(shown.tier.rate, payer, Cardinality(inputs))
                          ELSE Lean(shown.tier.rate, payer, Cardinality(inputs))
  /\ fee < Full(shown.tier.rate, payer, Cardinality(inputs)) + Dust
  /\ shown.max => fee = Lean(shown.tier.rate, payer, Cardinality(inputs))

\* The i-th attempt, as x, when these are the transactions.
AttemptOK(i, x, transactions) ==
  /\ x.error # "" => x.pc \in {"refused", "failed"}
  /\ x.pc = "refused" /\ currency # "btc" => x.error \in {"rejected", "funds"}
  /\ x.pc = "failed" => x.error # "" /\ x.seen \in Message(x.error)
  /\ x.error \in {"funds", "max changed"} /\ shown.max /\ currency # "usdt" => x.basis # shown.basis
  /\ x.pc \in {"sign", "broadcast"} /\ currency = "btc" =>
       x.inputs # {} /\ FeeOK(Sum(x.inputs) - shown.amount - x.change, x.change, x.inputs, x.payer)
  /\ x.pc = "broadcast" /\ currency = "btc" => \A c \in x.inputs : c.owner = x.payer
  /\ x.pc \in {"taken", "record", "done"} => \E t \in transactions : t.attempt = i

\* A transaction, when x is its attempt.
SentOK(t, x) ==
  /\ t.attempt \in 1..MaxAttempts
  /\ \/ x.pc \in {"taken", "record", "done"}
     \/ x.pc = "failed" /\ x.error \in {"timeout", "unexpected", "lost"}
  /\ t.amount = shown.amount
  /\ currency = "btc" =>
       t.inputs # {} /\ (\A c \in t.inputs : c.owner = t.from) /\ FeeOK(t.fee, t.change, t.inputs, t.from)
  /\ currency # "btc" => t.fee <= shown.fee

StatusOK ==
  /\ page = "status" => sent # {}
  /\ screen.confirming => \E i \in 1..MaxAttempts : Running(i)

FormsOK == OptionsOK /\ FormOK /\ RequestsOK

PaidOK ==
  /\ ShownOK /\ StatusOK
  /\ \A i \in 1..MaxAttempts : AttemptOK(i, attempts[i], sent)
  /\ \A t \in sent : SentOK(t, attempts[t.attempt])

IInv == Typed /\ FormsOK /\ PaidOK

-----------------------------------------------------------------------------
(* What a set of coins comes to.                                           *)

\* Sum is a fold, whose function picks the coins one by one.
Picked(s) == CHOOSE x \in s : TRUE
IsSum(S, f) == f = [s \in SUBSET S |-> IF s = {} THEN 0 ELSE Picked(s).value + f[s \ {Picked(s)}]]

\* Its sets are finite; functions that obey the recursion up to a size are extended to the next.
Valued(S) == IsFiniteSet(S) /\ \A c \in S : c.value \in Nat
Small(S, n) == {s \in SUBSET S : Cardinality(s) <= n}
IsPart(S, n, f) ==
  /\ f \in [Small(S, n) -> Nat]
  /\ \A s \in Small(S, n) : f[s] = IF s = {} THEN 0 ELSE Picked(s).value + f[s \ {Picked(s)}]

Recursive(S, f) == \A s \in SUBSET S : f[s] = IF s = {} THEN 0 ELSE Picked(s).value + f[s \ {Picked(s)}]

LEMMA LeastElement ==
  ASSUME NEW S \in SUBSET Nat, S # {}
  PROVE  \E i \in S : \A j \in S : i <= j
<1> DEFINE R == {p \in Nat \X Nat : p[1] < p[2]}
<1>1. IsWellFoundedOn(R, Nat)
  BY NatLessThanWellFounded, Zenon DEF OpToRel
<1>2. PICK i \in S : \A j \in S : ~(<<j, i>> \in R)
  <2> HIDE DEF R
  <2> QED
    BY <1>1, WFMin
<1>3. \A j \in S : ~(j < i)
  BY <1>2
<1>4. QED
  BY <1>3

LEMMA SumIs ==
  ASSUME NEW S
  PROVE  Sum(S) = (CHOOSE f : IsSum(S, f))[S]
BY Zenon DEF Sum, MapThenSumSet, MapThenFoldSet, IsSum, Picked

LEMMA PartSize ==
  ASSUME NEW S, Valued(S), NEW s \in SUBSET S
  PROVE  /\ Valued(s) /\ Cardinality(s) \in Nat /\ Cardinality(s) <= Cardinality(S) /\ Cardinality(S) \in Nat
         /\ Cardinality(s) = 0 <=> s = {}
<1>1. IsFiniteSet(s) /\ Cardinality(s) \in Nat /\ Cardinality(s) <= Cardinality(S) /\ Cardinality(S) \in Nat
  BY FS_Subset, FS_CardinalityType DEF Valued
<1>2. Cardinality(s) = 0 <=> s = {}
  BY <1>1, FS_EmptySet
<1>3. QED
  BY <1>1, <1>2 DEF Valued

LEMMA PartRest ==
  ASSUME NEW S, Valued(S), NEW s \in SUBSET S, NEW x \in s
  PROVE  /\ x.value \in Nat /\ s \ {x} \in SUBSET S /\ Valued(s \ {x})
         /\ Cardinality(s \ {x}) = Cardinality(s) - 1 /\ Cardinality(s) >= 1
<1>1. IsFiniteSet(s) /\ Cardinality(s) \in Nat /\ (Cardinality(s) = 0 <=> s = {})
  BY PartSize DEF Valued
<1>2. Cardinality(s \ {x}) = Cardinality(s) - 1
  BY <1>1, FS_RemoveElement
<1>3. s \ {x} \in SUBSET S /\ x.value \in Nat
  BY DEF Valued
<1>4. Valued(s \ {x})
  BY <1>3, PartSize
<1>5. QED
  BY <1>1, <1>2, <1>3, <1>4

LEMMA PickedIn ==
  ASSUME NEW s, s # {}
  PROVE  Picked(s) \in s
BY DEF Picked

LEMMA SmallestPart ==
  ASSUME NEW S, Valued(S), NEW Bad \in SUBSET SUBSET S, Bad # {}
  PROVE  \E s \in Bad : \A t \in Bad : Cardinality(s) <= Cardinality(t)
<1> DEFINE Sizes == {Cardinality(s) : s \in Bad}
<1>1. \A s \in Bad : Cardinality(s) \in Nat
  BY PartSize
<1>2. Sizes \in SUBSET Nat /\ Sizes # {}
  BY <1>1
<1> HIDE DEF Sizes
<1>3. PICK n \in Sizes : \A m \in Sizes : n <= m
  BY <1>2, LeastElement
<1>4. QED
  BY <1>3 DEF Sizes

LEMMA PartExists ==
  ASSUME NEW S, Valued(S), NEW n \in Nat
  PROVE  \E f : IsPart(S, n, f)
<1> DEFINE Bad == {k \in Nat : ~\E f : IsPart(S, k, f)}
<1>1. SUFFICES ASSUME Bad # {} PROVE FALSE
  OBVIOUS
<1>2. PICK k \in Bad : \A j \in Bad : k <= j
  BY <1>1, LeastElement
<1>3. \A s \in Small(S, k) : Cardinality(s) \in Nat /\ (Cardinality(s) = 0 <=> s = {})
  BY PartSize DEF Small
<1>4. CASE k = 0
  <2> DEFINE f == [s \in Small(S, 0) |-> 0]
  <2>1. \A s \in Small(S, 0) : s = {}
    BY <1>3, <1>4 DEF Small
  <2>2. IsPart(S, 0, f)
    BY <2>1 DEF IsPart
  <2>3. QED
    BY <1>2, <1>4, <2>2
<1>5. CASE k # 0
  <2>1. k - 1 \in Nat /\ k - 1 \notin Bad
    BY <1>2, <1>5
  <2>2. PICK g : IsPart(S, k - 1, g)
    BY <2>1
  <2> DEFINE f == [s \in Small(S, k) |-> IF s = {} THEN 0 ELSE Picked(s).value + g[s \ {Picked(s)}]]
  <2>3. ASSUME NEW s \in Small(S, k), s # {}
        PROVE  s \ {Picked(s)} \in Small(S, k - 1) /\ s \ {Picked(s)} \in Small(S, k) /\ Picked(s).value \in Nat
    <3>1. s \in SUBSET S /\ Cardinality(s) \in Nat /\ Cardinality(s) <= k /\ Picked(s) \in s
      BY <1>3, <2>3, PickedIn DEF Small
    <3>2. PICK x \in s : x = Picked(s)
      BY <3>1
    <3>3. x.value \in Nat /\ s \ {x} \in SUBSET S /\ Cardinality(s \ {x}) = Cardinality(s) - 1
      BY <3>1, PartRest
    <3>4. QED
      BY <1>2, <3>1, <3>2, <3>3 DEF Small
  <2>4. \A s \in Small(S, k) : f[s] \in Nat
    BY <2>2, <2>3 DEF IsPart
  <2>5. ASSUME NEW s \in Small(S, k - 1)
        PROVE  s \in Small(S, k) /\ f[s] = g[s]
    <3>1. s \in SUBSET S /\ Cardinality(s) <= k - 1
      BY DEF Small
    <3>2. Cardinality(s) \in Nat
      BY <3>1, PartSize
    <3>3. s \in Small(S, k)
      BY <1>2, <3>1, <3>2 DEF Small
    <3>4. g[s] = IF s = {} THEN 0 ELSE Picked(s).value + g[s \ {Picked(s)}]
      BY <2>2 DEF IsPart
    <3>5. QED
      BY <3>3, <3>4
  <2>6. \A s \in Small(S, k) : f[s] = IF s = {} THEN 0 ELSE Picked(s).value + g[s \ {Picked(s)}]
    OBVIOUS
  <2>7. f \in [Small(S, k) -> Nat]
    BY <2>4
  <2> HIDE DEF f
  <2>8. \A s \in Small(S, k) : f[s] = IF s = {} THEN 0 ELSE Picked(s).value + f[s \ {Picked(s)}]
    BY <2>3, <2>5, <2>6
  <2>9. IsPart(S, k, f)
    BY <2>7, <2>8 DEF IsPart
  <2>10. QED
    BY <1>2, <2>9
<1>6. QED
  BY <1>4, <1>5

\* Sum is what its recursion says.
LEMMA SumObeys ==
  ASSUME NEW S, Valued(S)
  PROVE  \E f \in [SUBSET S -> Nat] : Recursive(S, f) /\ f[S] = Sum(S)
<1>1. Cardinality(S) \in Nat
  BY PartSize
<1>2. Small(S, Cardinality(S)) = SUBSET S
  BY PartSize DEF Small
<1>3. PICK g : IsPart(S, Cardinality(S), g)
  BY <1>1, PartExists
<1>4. g = [s \in SUBSET S |-> IF s = {} THEN 0 ELSE Picked(s).value + g[s \ {Picked(s)}]]
  BY <1>2, <1>3, Zenon DEF IsPart
<1>5. IsSum(S, g)
  BY <1>4 DEF IsSum
<1> DEFINE f == CHOOSE h : IsSum(S, h)
<1>6. IsSum(S, f)
  BY <1>5
<1>7. f[S] = Sum(S)
  BY SumIs
<1> HIDE DEF f
<1>8. f = [s \in SUBSET S |-> IF s = {} THEN 0 ELSE Picked(s).value + f[s \ {Picked(s)}]]
  BY <1>6 DEF IsSum
<1>9. Recursive(S, f)
  BY <1>8 DEF Recursive
<1>10. \A s \in SUBSET S : f[s] \in Nat
  <2> DEFINE Bad == {s \in SUBSET S : f[s] \notin Nat}
  <2>1. SUFFICES ASSUME Bad # {} PROVE FALSE
    OBVIOUS
  <2>2. Bad \in SUBSET SUBSET S
    OBVIOUS
  <2>3. PICK s \in Bad : \A t \in Bad : Cardinality(s) <= Cardinality(t)
    BY <2>1, <2>2, SmallestPart
  <2>4. s \in SUBSET S /\ s # {} /\ Picked(s) \in s
    BY <1>9, <2>3, PickedIn DEF Recursive
  <2>5. /\ s \ {Picked(s)} \in SUBSET S /\ Cardinality(s \ {Picked(s)}) = Cardinality(s) - 1
        /\ Cardinality(s) \in Nat /\ Picked(s).value \in Nat
    BY <2>4, PartRest, PartSize
  <2>6. f[s \ {Picked(s)}] \in Nat
    BY <2>3, <2>5
  <2>7. f[s] = Picked(s).value + f[s \ {Picked(s)}]
    BY <1>9, <2>4 DEF Recursive
  <2>8. f[s] \in Nat
    BY <2>5, <2>6, <2>7
  <2>9. QED
    BY <2>3, <2>8
<1>11. f \in [SUBSET S -> Nat]
  <2>1. DOMAIN f = SUBSET S /\ f = [s \in DOMAIN f |-> f[s]]
    BY <1>8
  <2>2. QED
    BY <2>1, <1>10
<1>12. QED
  BY <1>7, <1>9, <1>11

\* Functions that obey the recursion agree.
LEMMA SumOfPart ==
  ASSUME NEW S, Valued(S), NEW T \in SUBSET S,
         NEW f \in [SUBSET S -> Nat], Recursive(S, f)
  PROVE  f[T] = Sum(T)
<1>1. Valued(T)
  BY PartSize
<1>2. PICK g \in [SUBSET T -> Nat] : Recursive(T, g) /\ g[T] = Sum(T)
  BY <1>1, SumObeys
<1> DEFINE Bad == {s \in SUBSET T : f[s] # g[s]}
<1>3. SUFFICES ASSUME Bad # {} PROVE FALSE
  <2>1. T \in SUBSET T
    OBVIOUS
  <2>2. QED
    BY <1>2, <1>3, <2>1
<1>4. Bad \in SUBSET SUBSET T
  OBVIOUS
<1>5. PICK s \in Bad : \A t \in Bad : Cardinality(s) <= Cardinality(t)
  BY <1>1, <1>3, <1>4, SmallestPart
<1>6. s \in SUBSET T /\ s \in SUBSET S /\ s # {}
  BY <1>2, <1>5 DEF Recursive
<1>7. Picked(s) \in s
  BY <1>6, PickedIn
<1>8. /\ s \ {Picked(s)} \in SUBSET T /\ Cardinality(s \ {Picked(s)}) = Cardinality(s) - 1
      /\ Cardinality(s) \in Nat
  BY <1>1, <1>6, <1>7, PartRest, PartSize
<1>9. f[s \ {Picked(s)}] = g[s \ {Picked(s)}]
  BY <1>5, <1>8
<1>10. QED
  BY <1>2, <1>5, <1>6, <1>9 DEF Recursive

\* A sum is a natural number, and no coins come to nothing.
LEMMA SumType ==
  ASSUME NEW S, Valued(S)
  PROVE  Sum(S) \in Nat /\ (S = {} => Sum(S) = 0)
<1>1. PICK f \in [SUBSET S -> Nat] : Recursive(S, f) /\ f[S] = Sum(S)
  BY SumObeys
<1>2. S \in SUBSET S
  OBVIOUS
<1>3. QED
  BY <1>1, <1>2 DEF Recursive

LEMMA SumPicked ==
  ASSUME NEW S, Valued(S), S # {}
  PROVE  Sum(S) = Picked(S).value + Sum(S \ {Picked(S)})
<1>1. PICK f \in [SUBSET S -> Nat] : Recursive(S, f) /\ f[S] = Sum(S)
  BY SumObeys
<1>2. S \in SUBSET S /\ S \ {Picked(S)} \in SUBSET S
  OBVIOUS
<1>3. f[S \ {Picked(S)}] = Sum(S \ {Picked(S)})
  BY <1>1, <1>2, SumOfPart
<1>4. QED
  BY <1>1, <1>2, <1>3 DEF Recursive

\* Any coin of a set may be counted first.
LEMMA SumRemove ==
  ASSUME NEW S, Valued(S), NEW x \in S
  PROVE  Sum(S) = x.value + Sum(S \ {x})
<1> DEFINE Bad == {s \in SUBSET S : \E y \in s : Sum(s) # y.value + Sum(s \ {y})}
<1>1. SUFFICES ASSUME Bad # {} PROVE FALSE
  OBVIOUS
<1>2. Bad \in SUBSET SUBSET S
  OBVIOUS
<1>3. PICK s \in Bad : \A t \in Bad : Cardinality(s) <= Cardinality(t)
  BY <1>1, <1>2, SmallestPart
<1>4. PICK y \in s : Sum(s) # y.value + Sum(s \ {y})
  BY <1>3
<1>5. s \in SUBSET S /\ Valued(s) /\ Cardinality(s) \in Nat
  BY <1>3, PartSize
<1>6. PICK p \in s : p = Picked(s) /\ Sum(s) = p.value + Sum(s \ {p})
  BY <1>4, <1>5, PickedIn, SumPicked
<1>7. p # y
  BY <1>4, <1>6
<1>8. /\ s \ {p} \in SUBSET S /\ Cardinality(s \ {p}) = Cardinality(s) - 1 /\ p.value \in Nat
      /\ s \ {y} \in SUBSET S /\ Cardinality(s \ {y}) = Cardinality(s) - 1 /\ y.value \in Nat
      /\ Valued(s \ {p})
  BY <1>4, <1>5, <1>6, PartRest
<1>9. s \ {p} \notin Bad /\ s \ {y} \notin Bad
  <2> HIDE DEF Bad
  <2>1. QED
    BY <1>3, <1>5, <1>8
<1>10. y \in s \ {p} /\ p \in s \ {y}
  BY <1>4, <1>6, <1>7
<1>11. Sum(s \ {p}) = y.value + Sum((s \ {p}) \ {y}) /\ Sum(s \ {y}) = p.value + Sum((s \ {y}) \ {p})
  <2>1. \A t \in SUBSET S : t \notin Bad => \A z \in t : Sum(t) = z.value + Sum(t \ {z})
    OBVIOUS
  <2> HIDE DEF Bad
  <2>2. QED
    BY <1>8, <1>9, <1>10, <2>1
<1>12. Sum((s \ {p}) \ {y}) = Sum((s \ {y}) \ {p})
  <2>1. (s \ {p}) \ {y} = (s \ {y}) \ {p}
    OBVIOUS
  <2>2. QED
    BY <2>1, Zenon
<1>13. Sum((s \ {p}) \ {y}) \in Nat
  BY <1>8, <1>10, PartRest, SumType
<1>14. QED
  BY <1>4, <1>6, <1>8, <1>11, <1>12, <1>13

\* Two sets with no coin in common add up.
LEMMA SumDisjoint ==
  ASSUME NEW S, NEW T, Valued(S), Valued(T), S \cap T = {}
  PROVE  Sum(S \cup T) = Sum(S) + Sum(T)
<1> DEFINE Bad == {s \in SUBSET S : Sum(s \cup T) # Sum(s) + Sum(T)}
<1>1. SUFFICES ASSUME Bad # {} PROVE FALSE
  <2>1. S \in SUBSET S
    OBVIOUS
  <2>2. QED
    BY <1>1, <2>1
<1>2. Bad \in SUBSET SUBSET S
  OBVIOUS
<1>3. PICK s \in Bad : \A t \in Bad : Cardinality(s) <= Cardinality(t)
  BY <1>1, <1>2, SmallestPart
<1>4. s \in SUBSET S /\ Valued(s) /\ Cardinality(s) \in Nat /\ Sum(T) \in Nat
  BY <1>3, PartSize, SumType
<1>5. CASE s = {}
  <2>1. Sum(s) = 0
    BY <1>4, <1>5, SumType
  <2>2. s \cup T = T
    BY <1>5
  <2>3. Sum(s \cup T) = Sum(T)
    BY <2>2, Zenon
  <2>4. Sum(s \cup T) = Sum(s) + Sum(T)
    BY <1>4, <2>1, <2>3
  <2>5. QED
    BY <1>3, <2>4
<1>6. CASE s # {}
  <2>1. PICK x : x \in s
    BY <1>6
  <2>2. /\ s \ {x} \in SUBSET S /\ Cardinality(s \ {x}) = Cardinality(s) - 1 /\ x.value \in Nat
        /\ Valued(s \ {x})
    BY <1>4, <2>1, PartRest
  <2>3. Sum((s \ {x}) \cup T) = Sum(s \ {x}) + Sum(T)
    BY <1>3, <1>4, <2>2
  <2>4. Valued(s \cup T)
    BY <1>4, FS_Union DEF Valued
  <2>5. Sum(s) = x.value + Sum(s \ {x})
    BY <1>4, <2>1, SumRemove
  <2>6. Sum(s \cup T) = x.value + Sum((s \cup T) \ {x})
    BY <2>1, <2>4, SumRemove
  <2>7. (s \cup T) \ {x} = (s \ {x}) \cup T
    BY <1>4, <2>1
  <2>8. Sum(s \ {x}) \in Nat
    BY <2>2, SumType
  <2>9. QED
    BY <1>3, <1>4, <2>2, <2>3, <2>5, <2>6, <2>7, <2>8
<1>7. QED
  BY <1>5, <1>6
-----------------------------------------------------------------------------
(* Fees: medians, clamps and roundings keep the order of the speeds.       *)

\* Max and Min of two numbers.
LEMMA GreaterOfTwo ==
  ASSUME NEW x \in Int, NEW y \in Int
  PROVE  Max({x, y}) = IF x >= y THEN x ELSE y
<1> DEFINE m == IF x >= y THEN x ELSE y
<1>1. m \in {x, y} /\ \A z \in {x, y} : m >= z
  OBVIOUS
<1>2. \A k \in {x, y} : (\A z \in {x, y} : k >= z) => k = m
  OBVIOUS
<1> HIDE DEF m
<1>3. Max({x, y}) = m
  BY <1>1, <1>2 DEF Max
<1>4. QED
  BY <1>3 DEF m

LEMMA LesserOfTwo ==
  ASSUME NEW x \in Int, NEW y \in Int
  PROVE  Min({x, y}) = IF x <= y THEN x ELSE y
<1> DEFINE m == IF x <= y THEN x ELSE y
<1>1. m \in {x, y} /\ \A z \in {x, y} : m <= z
  OBVIOUS
<1>2. \A k \in {x, y} : (\A z \in {x, y} : k <= z) => k = m
  OBVIOUS
<1> HIDE DEF m
<1>3. Min({x, y}) = m
  BY <1>1, <1>2 DEF Min
<1>4. QED
  BY <1>3 DEF m

LEMMA GreatestOfThree ==
  ASSUME NEW x \in Int, NEW y \in Int, NEW z \in Int
  PROVE  /\ Max({x, y, z}) \in {x, y, z}
         /\ Max({x, y, z}) >= x /\ Max({x, y, z}) >= y /\ Max({x, y, z}) >= z
<1> DEFINE m == IF x >= y THEN IF x >= z THEN x ELSE z ELSE IF y >= z THEN y ELSE z
<1>1. m \in {x, y, z} /\ \A w \in {x, y, z} : m >= w
  OBVIOUS
<1> HIDE DEF m
<1>2. Max({x, y, z}) \in {x, y, z} /\ \A w \in {x, y, z} : Max({x, y, z}) >= w
  BY <1>1 DEF Max
<1>3. QED
  BY <1>2

\* A finite sequence of numbers is bounded.
LEMMA Bounded ==
  ASSUME NEW n \in Nat, NEW ns \in [1..n -> Nat]
  PROVE  \E b \in Nat : \A i \in 1..n : ns[i] <= b
<1> DEFINE Bad == {k \in Nat : k <= n /\ ~\E b \in Nat : \A i \in 1..k : ns[i] <= b}
<1>1. SUFFICES ASSUME Bad # {} PROVE FALSE
  <2>1. n \notin Bad
    <3> HIDE DEF Bad
    <3>1. QED
      BY <1>1
  <2>2. QED
    BY <2>1
<1>2. PICK k \in Bad : \A j \in Bad : k <= j
  BY <1>1, LeastElement
<1> HIDE DEF Bad
<1>3. CASE k = 0
  <2>1. 0 \in Nat /\ \A i \in 1..0 : ns[i] <= 0
    OBVIOUS
  <2>2. QED
    BY <1>2, <1>3, <2>1 DEF Bad
<1>4. CASE k # 0
  <2>1. k - 1 \in Nat /\ k - 1 <= n /\ k - 1 \notin Bad
    <3>1. k \in Nat /\ k <= n
      BY <1>2 DEF Bad
    <3>2. k - 1 \in Nat /\ k - 1 <= n /\ ~(k <= k - 1)
      BY <1>4, <3>1
    <3>3. QED
      BY <1>2, <3>2
  <2>2. PICK b \in Nat : \A i \in 1..(k - 1) : ns[i] <= b
    BY <2>1 DEF Bad
  <2>3. PICK c \in Nat : b <= c /\ ns[k] <= c
    <3>1. ns[k] \in Nat
      BY <1>2, <1>4 DEF Bad
    <3>2. b <= b + ns[k] /\ ns[k] <= b + ns[k] /\ b + ns[k] \in Nat
      BY <3>1
    <3>3. QED
      BY <3>2
  <2>4. ASSUME NEW i \in 1..k PROVE ns[i] <= c
    <3>1. ns[i] \in Nat /\ k \in Nat /\ k <= n
      BY <1>2 DEF Bad
    <3>2. CASE i = k
      BY <2>3, <3>2
    <3>3. CASE i # k
      <4>1. i \in 1..(k - 1)
        BY <3>1, <3>3
      <4>2. QED
        BY <2>2, <2>3, <3>1, <4>1
    <3>4. QED
      BY <3>2, <3>3
  <2>5. QED
    BY <1>2, <2>4 DEF Bad
<1>5. QED
  BY <1>3, <1>4

Upto(ns, v) == {i \in DOMAIN ns : ns[i] <= v}
Below(ns, v) == {i \in DOMAIN ns : ns[i] < v}

LEMMA Counted ==
  ASSUME NEW n \in Nat, NEW S \in SUBSET (1..n), NEW T \in SUBSET S
  PROVE  /\ Cardinality(S) \in Nat /\ Cardinality(T) \in Nat
         /\ Cardinality(T) <= Cardinality(S) /\ Cardinality(S) <= n
         /\ S = 1..n => Cardinality(S) = n
         /\ S = {} => Cardinality(S) = 0
<1>1. IsFiniteSet(1..n) /\ Cardinality(1..n) = n
  BY FS_Interval
<1>2. IsFiniteSet(S) /\ Cardinality(S) \in Nat /\ Cardinality(S) <= n
  BY <1>1, FS_Subset, FS_CardinalityType
<1>3. IsFiniteSet(T) /\ Cardinality(T) \in Nat /\ Cardinality(T) <= Cardinality(S)
  BY <1>2, FS_Subset, FS_CardinalityType
<1>4. S = {} => Cardinality(S) = 0
  BY FS_EmptySet
<1>5. S = 1..n => Cardinality(S) = n
  BY <1>1, Zenon
<1>6. QED
  BY <1>2, <1>3, <1>4, <1>5

\* There is a k-th of n numbers.
LEMMA KthExists ==
  ASSUME NEW n \in Nat, NEW ns \in [1..n -> Nat], NEW k \in 1..n
  PROVE  /\ Kth(ns, k) \in Nat
         /\ Cardinality(Below(ns, Kth(ns, k))) < k /\ Cardinality(Upto(ns, Kth(ns, k))) >= k
<1> DEFINE B == {b \in Nat : Cardinality(Upto(ns, b)) >= k}
<1>1. \A v \in Nat : /\ Upto(ns, v) \in SUBSET (1..n) /\ Below(ns, v) \in SUBSET (1..n)
                     /\ Cardinality(Upto(ns, v)) \in Nat /\ Cardinality(Below(ns, v)) \in Nat
  BY Counted DEF Upto, Below
<1>2. B # {}
  <2>1. PICK b \in Nat : \A i \in 1..n : ns[i] <= b
    BY Bounded
  <2>2. Upto(ns, b) = 1..n
    BY <2>1 DEF Upto
  <2>3. Cardinality(Upto(ns, b)) = n
    BY <2>2, Counted
  <2>4. QED
    BY <2>3
<1>3. PICK v \in B : \A b \in B : v <= b
  BY <1>2, LeastElement
<1>4. Cardinality(Below(ns, v)) < k
  <2>1. CASE v = 0
    <3>1. Below(ns, v) = {}
      BY <2>1 DEF Below
    <3>2. Cardinality(Below(ns, v)) = 0
      BY <1>1, <3>1, Counted
    <3>3. QED
      BY <3>2
  <2>2. CASE v # 0
    <3>1. v - 1 \in Nat /\ v - 1 \notin B
      BY <1>3, <2>2
    <3>2. Below(ns, v) = Upto(ns, v - 1)
      BY <3>1 DEF Below, Upto
    <3>3. Cardinality(Upto(ns, v - 1)) < k
      BY <1>1, <3>1
    <3>4. QED
      BY <3>2, <3>3, Zenon
  <2>3. QED
    BY <2>1, <2>2
<1>5. v \in Range(ns)
  <2>1. SUFFICES ASSUME \A i \in 1..n : ns[i] # v PROVE FALSE
    BY DEF Range
  <2>2. Upto(ns, v) = Below(ns, v)
    BY <1>3, <2>1 DEF Upto, Below
  <2>3. Cardinality(Upto(ns, v)) = Cardinality(Below(ns, v))
    BY <2>2, Zenon
  <2>4. QED
    BY <1>1, <1>3, <1>4, <2>3
<1>6. \E x \in Range(ns) : Cardinality(Below(ns, x)) < k /\ Cardinality(Upto(ns, x)) >= k
  BY <1>3, <1>4, <1>5
<1>7. Kth(ns, k) = CHOOSE x \in Range(ns) : Cardinality(Below(ns, x)) < k /\ Cardinality(Upto(ns, x)) >= k
  BY Zenon DEF Kth, Below, Upto
<1>8. /\ Kth(ns, k) \in Range(ns)
      /\ Cardinality(Below(ns, Kth(ns, k))) < k /\ Cardinality(Upto(ns, Kth(ns, k))) >= k
  BY <1>6, <1>7, Zenon
<1>9. Range(ns) \subseteq Nat
  BY DEF Range
<1>10. QED
  BY <1>8, <1>9

LEMMA KthMonotone ==
  ASSUME NEW n \in Nat, NEW ns \in [1..n -> Nat], NEW ms \in [1..n -> Nat], NEW k \in 1..n,
         \A i \in 1..n : ns[i] <= ms[i]
  PROVE  Kth(ns, k) <= Kth(ms, k)
<1> DEFINE v == Kth(ns, k)
           w == Kth(ms, k)
<1>1. v \in Nat /\ w \in Nat /\ Cardinality(Below(ns, v)) < k /\ Cardinality(Upto(ms, w)) >= k
  BY KthExists
<1> HIDE DEF v, w
<1>2. SUFFICES ASSUME w < v PROVE FALSE
  BY <1>1 DEF v, w
<1>3. Below(ns, v) \in SUBSET (1..n) /\ Upto(ms, w) \in SUBSET Below(ns, v)
  BY <1>1, <1>2 DEF Below, Upto
<1>4. /\ Cardinality(Upto(ms, w)) <= Cardinality(Below(ns, v))
      /\ Cardinality(Upto(ms, w)) \in Nat /\ Cardinality(Below(ns, v)) \in Nat
  BY <1>3, Counted
<1>5. QED
  BY <1>1, <1>4

\* The median, and that it keeps an order.
LEMMA MiddleMonotone ==
  ASSUME NEW n \in Nat \ {0}, NEW ns \in [1..n -> Nat], NEW ms \in [1..n -> Nat],
         \A i \in 1..n : ns[i] <= ms[i]
  PROVE  Middle(ns) \in Nat /\ Middle(ms) \in Nat /\ Middle(ns) <= Middle(ms)
<1>1. DOMAIN ns = 1..n /\ DOMAIN ms = 1..n /\ Cardinality(1..n) = n
  BY FS_Interval
<1> DEFINE m == n \div 2
<1>2. m + 1 \in 1..n /\ (n % 2 = 0 => m \in 1..n)
  OBVIOUS
<1>3. /\ Middle(ns) = IF n % 2 = 0 THEN (Kth(ns, m) + Kth(ns, m + 1)) \div 2 ELSE Kth(ns, m + 1)
      /\ Middle(ms) = IF n % 2 = 0 THEN (Kth(ms, m) + Kth(ms, m + 1)) \div 2 ELSE Kth(ms, m + 1)
  BY <1>1 DEF Middle
<1> HIDE DEF m
<1>4. Kth(ns, m + 1) \in Nat /\ Kth(ms, m + 1) \in Nat /\ Kth(ns, m + 1) <= Kth(ms, m + 1)
  BY <1>2, KthExists, KthMonotone
<1>5. CASE n % 2 = 0
  <2>1. Kth(ns, m) \in Nat /\ Kth(ms, m) \in Nat /\ Kth(ns, m) <= Kth(ms, m)
    BY <1>2, <1>5, KthExists, KthMonotone
  <2>2. QED
    BY <1>3, <1>4, <1>5, <2>1
<1>6. CASE n % 2 # 0
  BY <1>3, <1>4, <1>6
<1>7. QED
  BY <1>5, <1>6

LEMMA ClampedMonotone ==
  ASSUME NEW x \in Nat, NEW y \in Nat, x <= y
  PROVE  Clamped(x) \in Nat /\ Clamped(y) \in Nat /\ Clamped(x) <= Clamped(y)
<1>1. \A z \in Nat : Clamped(z) = IF z < 1 THEN 1 ELSE IF z > 1000 THEN 1000 ELSE z
  <2>1. ASSUME NEW z \in Nat
        PROVE  Clamped(z) = IF z < 1 THEN 1 ELSE IF z > 1000 THEN 1000 ELSE z
    <3>1. Max({1, z}) = IF 1 >= z THEN 1 ELSE z
      BY GreaterOfTwo
    <3>2. Max({1, z}) \in Int
      BY <3>1
    <3>3. Clamped(z) = IF 1000 <= Max({1, z}) THEN 1000 ELSE Max({1, z})
      BY <3>2, LesserOfTwo DEF Clamped
    <3>4. QED
      BY <3>1, <3>3
  <2>2. QED
    BY <2>1
<1>2. QED
  BY <1>1
\* The fees of Bitcoin keep the order of the speeds.
LEMMA SizedType ==
  ASSUME NEW rate \in Nat, NEW a \in Accounts, NEW n \in Nat
  PROVE  Lean(rate, a, n) \in Nat /\ Full(rate, a, n) \in Nat /\ Lean(rate, a, n) <= Full(rate, a, n)
<1>1. Overhead \in Nat /\ InVB[a] \in Nat /\ OutVB[a] \in Nat
  BY PaymentAssumption
<1>2. PICK size \in Nat : size = Overhead + n * InVB[a]
  BY <1>1
<1>3. rate * (size + OutVB[a]) = rate * size + rate * OutVB[a] /\ rate * (size + 0) = rate * size
  BY <1>1
<1>4. Lean(rate, a, n) = rate * (size + 0) /\ Full(rate, a, n) = rate * (size + OutVB[a])
  BY <1>2 DEF Sized, Lean, Full
<1>5. PICK x \in Nat : x = rate * size
  OBVIOUS
<1>6. PICK y \in Nat : y = rate * OutVB[a]
  BY <1>1
<1>7. Lean(rate, a, n) = x /\ Full(rate, a, n) = x + y
  BY <1>3, <1>4, <1>5, <1>6
<1>8. QED
  BY <1>7

LEMMA SizedMonotone ==
  ASSUME NEW r \in Nat, NEW s \in Nat, r <= s, NEW a \in Accounts
  PROVE  Full(r, a, 1) <= Full(s, a, 1)
<1>1. PICK size \in Nat : size = Overhead + 1 * InVB[a] + OutVB[a]
  BY PaymentAssumption
<1>2. PICK d \in Nat : s = r + d
  <2>1. s - r \in Nat /\ s = r + (s - r)
    OBVIOUS
  <2>2. QED
    BY <2>1
<1>3. s * size = r * size + d * size
  BY <1>2
<1>4. Full(r, a, 1) = r * size /\ Full(s, a, 1) = s * size
  BY <1>1 DEF Sized, Full
<1>5. PICK x \in Nat : x = r * size
  OBVIOUS
<1>6. PICK y \in Nat : y = d * size
  OBVIOUS
<1>7. Full(r, a, 1) = x /\ Full(s, a, 1) = x + y
  BY <1>3, <1>4, <1>5, <1>6
<1>8. QED
  BY <1>7

Ordered(rates) ==
  /\ rates["slow"] \in Nat /\ rates["medium"] \in Nat /\ rates["fast"] \in Nat
  /\ rates["slow"] <= rates["medium"] /\ rates["medium"] <= rates["fast"]

\* The medians keep the order of the speeds if the providers that answered do.
LEMMA MixedRates ==
  ASSUME NEW answers \in SeqOf(RateAnswers, 3), NEW rates, rates = ReliableRates(answers)
  PROVE  /\ \A speed \in {"slow", "medium", "fast"} : rates[speed] \in Nat
         /\ answers \in SeqOf(InOrder, 3) => Ordered(rates)
<1>1. PICK n \in 0..3 : answers \in [1..n -> RateAnswers]
  BY DEF SeqOf
<1>2. answers \in SeqOf(InOrder, 3) => \A k \in 1..n : answers[k] \in InOrder
  <2>1. ASSUME NEW m \in 0..3, answers \in [1..m -> InOrder] PROVE \A k \in 1..n : answers[k] \in InOrder
    <3>1. 1..m = 1..n
      BY <1>1, <2>1
    <3>2. QED
      BY <2>1, <3>1
  <2>2. QED
    BY <2>1 DEF SeqOf
<1>3. CASE answers = <<>>
  BY <1>3 DEF ReliableRates, Fallback, Ordered
<1>4. CASE answers # <<>>
  <2>1. n \in Nat \ {0}
    <3>1. ASSUME n = 0 PROVE answers = <<>>
      BY <1>1, <3>1
    <3>2. QED
      BY <1>4, <3>1
  <2> DEFINE of(speed) == [k \in DOMAIN answers |-> answers[k][speed]]
  <2>2. \A k \in 1..n : answers[k]["slow"] \in Nat /\ answers[k]["medium"] \in Nat /\ answers[k]["fast"] \in Nat
    BY <1>1, PaymentAssumption
  <2>3. /\ of("slow") \in [1..n -> Nat] /\ of("medium") \in [1..n -> Nat] /\ of("fast") \in [1..n -> Nat]
        /\ \A k \in 1..n : /\ of("slow")[k] = answers[k].slow /\ of("medium")[k] = answers[k].medium
                            /\ of("fast")[k] = answers[k].fast
    BY <1>1, <2>2
  <2>4. /\ rates["slow"] = Clamped(Middle(of("slow"))) /\ rates["medium"] = Clamped(Middle(of("medium")))
        /\ rates["fast"] = Clamped(Middle(of("fast")))
    BY <1>4 DEF ReliableRates
  <2> HIDE DEF of
  <2>5. Middle(of("slow")) \in Nat /\ Middle(of("medium")) \in Nat /\ Middle(of("fast")) \in Nat
    <3>1. ASSUME NEW ns \in [1..n -> Nat] PROVE Middle(ns) \in Nat
      <4>1. \A k \in 1..n : ns[k] <= ns[k]
        OBVIOUS
      <4>2. QED
        BY <2>1, <4>1, MiddleMonotone
    <3>2. QED
      BY <2>3, <3>1
  <2>6. \A speed \in {"slow", "medium", "fast"} : rates[speed] \in Nat
    BY <2>4, <2>5, ClampedMonotone
  <2>7. ASSUME answers \in SeqOf(InOrder, 3) PROVE Ordered(rates)
    <3>1. \A k \in 1..n : of("slow")[k] <= of("medium")[k] /\ of("medium")[k] <= of("fast")[k]
      BY <1>2, <2>3, <2>7 DEF InOrder
    <3>2. Middle(of("slow")) <= Middle(of("medium")) /\ Middle(of("medium")) <= Middle(of("fast"))
      BY <2>1, <2>3, <3>1, MiddleMonotone
    <3>3. QED
      BY <2>4, <2>5, <3>2, ClampedMonotone DEF Ordered
  <2>8. QED
    BY <2>6, <2>7
<1>5. QED
  BY <1>3, <1>4

LEMMA BitcoinTiersOK ==
  ASSUME NEW answers \in SeqOf(RateAnswers, 3), NEW rates, rates = ReliableRates(answers), NEW a \in Accounts
  PROVE  /\ currency = "btc" => TiersOK(BitcoinTiers(rates, a))
         /\ answers \in SeqOf(InOrder, 3) => Rising(BitcoinTiers(rates, a))
<1> DEFINE ts == BitcoinTiers(rates, a)
           speed == <<"slow", "medium", "fast">>
<1>1. answers \in SeqOf(InOrder, 3) => Ordered(rates)
  BY MixedRates
<1>2. \A i \in 1..3 : rates[speed[i]] \in Nat
  BY MixedRates
<1>3. \A i \in 1..3 : ts[i] = [rate |-> rates[speed[i]], fee |-> Full(rates[speed[i]], a, 1),
                               cap |-> 0, tip |-> Unknown]
  BY DEF BitcoinTiers, Full
<1>4. ts \in [1..3 -> Tiers]
  <2>1. DOMAIN ts = 1..3 /\ ts = [i \in 1..3 |-> ts[i]]
    BY DEF BitcoinTiers
  <2> HIDE DEF ts, speed
  <2>2. ASSUME NEW i \in 1..3 PROVE ts[i] \in Tiers
    <3>1. PICK r \in Nat : r = rates[speed[i]]
      BY <1>2
    <3>2. Full(r, a, 1) \in Nat
      BY SizedType
    <3>3. ts[i] = [rate |-> r, fee |-> Full(r, a, 1), cap |-> 0, tip |-> Unknown]
      BY <1>3, <3>1
    <3>4. QED
      BY <3>2, <3>3 DEF Tiers
  <2>3. QED
    BY <2>1, <2>2
<1> HIDE DEF ts
<1>5. ASSUME answers \in SeqOf(InOrder, 3) PROVE Rising(ts)
  <2>1. \A i \in 1..2 : rates[speed[i]] <= rates[speed[i + 1]]
    BY <1>1, <1>5 DEF Ordered
  <2> HIDE DEF speed
  <2>2. \A i \in 1..2 : i \in 1..3 /\ i + 1 \in 1..3
    OBVIOUS
  <2>3. \A i \in 1..2 : Full(rates[speed[i]], a, 1) <= Full(rates[speed[i + 1]], a, 1)
    BY <1>2, <2>1, <2>2, SizedMonotone
  <2>4. QED
    BY <1>3, <2>1, <2>2, <2>3 DEF Rising
<1>6. QED
  BY <1>4, <1>5 DEF TiersOK, Usable, ts

LEMMA OfferedRises ==
  ASSUME NEW ts \in OfferedInOrder
  PROVE  Rising(ts)
<1>1. PICK answers \in SeqOf(InOrder, 3), a \in Accounts : ts = BitcoinTiers(ReliableRates(answers), a)
  BY DEF OfferedInOrder
<1>2. answers \in SeqOf(RateAnswers, 3)
  <2>1. PICK n \in 0..3 : answers \in [1..n -> InOrder]
    BY <1>1 DEF SeqOf
  <2>2. answers \in [1..n -> RateAnswers]
    BY <2>1 DEF InOrder
  <2>3. QED
    BY <2>2 DEF SeqOf
<1>3. QED
  BY <1>1, <1>2, BitcoinTiersOK

\* The fees of Ethereum: roundings keep the order of the tiers.
LEMMA ScaledTiers ==
  ASSUME NEW n \in Nat
  PROVE  /\ \A i \in 1..3 : Scaled(n, TierScale[i][1], TierScale[i][2]) \in Nat
         /\ \A i \in 1..2 : Scaled(n, TierScale[i][1], TierScale[i][2])
                              <= Scaled(n, TierScale[i + 1][1], TierScale[i + 1][2])
         /\ n > 0 => \A i \in 1..3 : Scaled(n, TierScale[i][1], TierScale[i][2]) > 0
<1> DEFINE x == (n * 9 + 10 - 1) \div 10
           y == (n * 1 + 1 - 1) \div 1
           z == (n * 115 + 100 - 1) \div 100
<1>1. x \in Nat /\ y \in Nat /\ z \in Nat /\ x <= y /\ y <= z /\ (n > 0 => x > 0 /\ y > 0 /\ z > 0)
  OBVIOUS
<1>2. /\ Scaled(n, TierScale[1][1], TierScale[1][2]) = x
      /\ Scaled(n, TierScale[2][1], TierScale[2][2]) = y
      /\ Scaled(n, TierScale[3][1], TierScale[3][2]) = z
  BY DEF Scaled, TierScale
<1> HIDE DEF x, y, z
<1>3. \A i \in 1..3 : i = 1 \/ i = 2 \/ i = 3
  OBVIOUS
<1>4. \A i \in 1..2 : (i = 1 /\ i + 1 = 2) \/ (i = 2 /\ i + 1 = 3)
  OBVIOUS
<1>5. QED
  BY <1>1, <1>2, <1>3, <1>4

MarketOK(m) ==
  /\ m.base \in Nat /\ m.gasPrice \in Nat
  /\ {m.suggestedCap, m.suggestedTip, m.rpcTip} \subseteq Nat \cup {Unknown}
  /\ m.history # <<>> =>
       m.history \in [1..3 -> Nat] /\ m.history[1] <= m.history[2] /\ m.history[2] <= m.history[3]

LEMMA TipsOrdered ==
  ASSUME NEW m, MarketOK(m), NEW base \in Nat
  PROVE  /\ Tips(m, base)[1] \in Nat /\ Tips(m, base)[2] \in Nat /\ Tips(m, base)[3] \in Nat
         /\ Tips(m, base)[1] <= Tips(m, base)[2] /\ Tips(m, base)[2] <= Tips(m, base)[3]
<1> DEFINE suggested == IF m.suggestedTip # Unknown THEN m.suggestedTip
                        ELSE IF m.rpcTip # Unknown THEN m.rpcTip ELSE 0
           half == suggested \div 2
           more == IF suggested > 0 THEN Scaled(suggested, 3, 2) ELSE base \div 10
           tips == IF m.history # <<>> THEN m.history ELSE <<half, suggested, more>>
<1>1. suggested \in Nat
  BY DEF MarketOK
<1>2. half \in Nat /\ more \in Nat /\ half <= suggested /\ suggested <= more
  <2> HIDE DEF suggested
  <2>1. QED
    BY <1>1 DEF Scaled
<1>3. tips[1] \in Nat /\ tips[2] \in Nat /\ tips[3] \in Nat /\ tips[1] <= tips[2] /\ tips[2] <= tips[3]
  <2> HIDE DEF suggested, half, more
  <2>1. QED
    BY <1>1, <1>2 DEF MarketOK
<1>4. Tips(m, base) = IF \A i \in 1..3 : tips[i] = 0 THEN <<0, 0, base \div 10>> ELSE tips
  BY DEF Tips
<1> HIDE DEF tips
<1>5. base \div 10 \in Nat
  OBVIOUS
<1>6. QED
  BY <1>3, <1>4, <1>5

\* The cap pays for the tier, and grows with the tip and with what the node suggests.
LEMMA CapOrdered ==
  ASSUME NEW m, MarketOK(m), NEW base \in Nat, NEW i \in 1..3, NEW tip \in Nat
  PROVE  /\ Cap(m, base, tip, i) \in Nat /\ Cap(m, base, tip, i) >= 2 * base + tip
         /\ \A j \in 1..3, more \in Nat :
              j = i + 1 /\ tip <= more => Cap(m, base, tip, i) <= Cap(m, base, more, j)
<1> DEFINE s(k) == IF m.suggestedCap # Unknown THEN Scaled(m.suggestedCap, TierScale[k][1], TierScale[k][2]) ELSE 0
<1>1. (\A k \in 1..3 : s(k) \in Nat) /\ (\A k \in 1..2 : s(k) <= s(k + 1))
  <2>1. CASE m.suggestedCap = Unknown
    BY <2>1
  <2>2. CASE m.suggestedCap # Unknown
    <3>1. m.suggestedCap \in Nat
      BY <2>2 DEF MarketOK
    <3>2. \A k \in 1..3 : s(k) = Scaled(m.suggestedCap, TierScale[k][1], TierScale[k][2])
      BY <2>2
    <3>3. \A k \in 1..2 : k \in 1..3 /\ k + 1 \in 1..3
      OBVIOUS
    <3> HIDE DEF s
    <3>4. QED
      BY <3>1, <3>2, <3>3, ScaledTiers
  <2>3. QED
    BY <2>1, <2>2
<1>2. \A k \in 1..2 : s(k) <= s(k + 1)
  BY <1>1
<1>3. \A k \in 1..3, t \in Nat : Cap(m, base, t, k) = Max({2 * base + t, base + t, s(k)})
  BY DEF Cap
<1> HIDE DEF s
<1>4. \A k \in 1..3, t \in Nat :
        /\ Cap(m, base, t, k) \in {2 * base + t, base + t, s(k)}
        /\ Cap(m, base, t, k) >= 2 * base + t /\ Cap(m, base, t, k) >= base + t /\ Cap(m, base, t, k) >= s(k)
  <2>1. ASSUME NEW k \in 1..3, NEW t \in Nat
        PROVE  /\ Cap(m, base, t, k) \in {2 * base + t, base + t, s(k)}
               /\ Cap(m, base, t, k) >= 2 * base + t /\ Cap(m, base, t, k) >= base + t /\ Cap(m, base, t, k) >= s(k)
    <3>1. PICK x \in Int, y \in Int, z \in Int : x = 2 * base + t /\ y = base + t /\ z = s(k)
      BY <1>1
    <3>2. Cap(m, base, t, k) = Max({x, y, z})
      BY <1>3, <3>1
    <3>3. /\ Max({x, y, z}) = x \/ Max({x, y, z}) = y \/ Max({x, y, z}) = z
          /\ Max({x, y, z}) >= x /\ Max({x, y, z}) >= y /\ Max({x, y, z}) >= z
      <4>1. Max({x, y, z}) \in {x, y, z}
        BY GreatestOfThree, Zenon
      <4>2. Max({x, y, z}) >= x /\ Max({x, y, z}) >= y /\ Max({x, y, z}) >= z
        BY GreatestOfThree, Zenon
      <4>3. QED
        BY <4>1, <4>2, Zenon
    <3>4. PICK w : w = Max({x, y, z})
      OBVIOUS
    <3>5. /\ w = x \/ w = y \/ w = z
          /\ w >= x /\ w >= y /\ w >= z
      BY <3>3, <3>4, Zenon
    <3>6. Cap(m, base, t, k) = w
      BY <3>2, <3>4, Zenon
    <3>7. QED
      BY <3>1, <3>5, <3>6
  <2>2. QED
    BY <2>1
<1>5. \A k \in 1..3, t \in Nat : Cap(m, base, t, k) \in Nat
  BY <1>1, <1>4
<1>6. ASSUME NEW j \in 1..3, NEW more \in Nat, j = i + 1, tip <= more
      PROVE  Cap(m, base, tip, i) <= Cap(m, base, more, j)
  <2>1. s(i) <= s(j) /\ s(i) \in Nat /\ s(j) \in Nat
    <3>1. i \in 1..2
      BY <1>6
    <3>2. QED
      BY <1>1, <1>2, <1>6, <3>1
  <2>2. /\ Cap(m, base, tip, i) = 2 * base + tip \/ Cap(m, base, tip, i) = base + tip \/ Cap(m, base, tip, i) = s(i)
        /\ Cap(m, base, more, j) >= 2 * base + more /\ Cap(m, base, more, j) >= base + more
        /\ Cap(m, base, more, j) >= s(j) /\ Cap(m, base, more, j) \in Nat
    BY <1>4, <1>5
  <2>3. QED
    BY <1>6, <2>1, <2>2
<1>7. QED
  BY <1>4, <1>5, <1>6

LEMMA GasType ==
  Gas \in {1, 3}
BY DEF Gas

LEMMA PricesOrdered ==
  ASSUME NEW x \in Nat, NEW y \in Nat, x <= y
  PROVE  x * Gas \in Nat /\ x * Gas <= y * Gas
BY GasType

LEMMA EthereumTiersOK ==
  ASSUME NEW m, MarketOK(m), m.base > 0 \/ m.gasPrice > 0
  PROVE  TiersOK(EthereumTiers(m))
<1>1. CASE m.base > 0
  <2> DEFINE tip(i) == Tips(m, m.base)[i]
             cap(i) == Cap(m, m.base, tip(i), i)
             ts == [i \in 1..3 |-> [rate |-> m.base + tip(i), fee |-> cap(i) * Gas, cap |-> cap(i), tip |-> tip(i)]]
  <2>1. EthereumTiers(m) = ts
    BY <1>1 DEF EthereumTiers
  <2>2. m.base \in Nat
    BY DEF MarketOK
  <2>3. (\A i \in 1..3 : tip(i) \in Nat) /\ (\A i \in 1..2 : tip(i) <= tip(i + 1))
    <3>1. /\ tip(1) \in Nat /\ tip(2) \in Nat /\ tip(3) \in Nat
          /\ tip(1) <= tip(2) /\ tip(2) <= tip(3)
      BY <2>2, TipsOrdered
    <3> HIDE DEF tip
    <3>2. (\A i \in 1..3 : i = 1 \/ i = 2 \/ i = 3) /\ (\A i \in 1..2 : (i = 1 /\ i + 1 = 2) \/ (i = 2 /\ i + 1 = 3))
      OBVIOUS
    <3>3. QED
      BY <3>1, <3>2
  <2> HIDE DEF tip
  <2>4. \A i \in 1..3 : cap(i) \in Nat /\ cap(i) >= 2 * m.base + tip(i)
    BY <2>2, <2>3, CapOrdered
  <2>5. \A i \in 1..2 : cap(i) <= cap(i + 1)
    <3>1. \A i \in 1..2 : i \in 1..3 /\ i + 1 \in 1..3
      OBVIOUS
    <3>2. QED
      BY <2>2, <2>3, <3>1, CapOrdered
  <2> HIDE DEF cap
  <2>6. \A i \in 1..3 : cap(i) * Gas \in Nat
    BY <2>4, PricesOrdered
  <2>7. \A i \in 1..2 : cap(i) * Gas <= cap(i + 1) * Gas
    <3>1. \A i \in 1..2 : i \in 1..3 /\ i + 1 \in 1..3
      OBVIOUS
    <3>2. QED
      BY <2>4, <2>5, <3>1, PricesOrdered
  <2>8. ts \in [1..3 -> Tiers]
    BY <2>2, <2>3, <2>4, <2>6 DEF Tiers
  <2>9. \A i \in 1..3 : Usable(ts[i])
    BY <1>1, <2>2, <2>3, <2>4 DEF Usable, Overridable
  <2>10. \A i \in 1..2 : ts[i].rate <= ts[i + 1].rate /\ ts[i].fee <= ts[i + 1].fee
    BY <2>2, <2>3, <2>7
  <2> HIDE DEF ts
  <2>11. QED
    BY <2>1, <2>8, <2>9, <2>10 DEF TiersOK, Rising
<1>2. CASE ~(m.base > 0)
  <2> DEFINE price(i) == Scaled(m.gasPrice, TierScale[i][1], TierScale[i][2])
             ts == [i \in 1..3 |-> [rate |-> price(i), fee |-> price(i) * Gas, cap |-> price(i), tip |-> Unknown]]
  <2>1. EthereumTiers(m) = ts
    BY <1>2 DEF EthereumTiers
  <2>2. m.gasPrice \in Nat /\ m.gasPrice > 0
    BY <1>2 DEF MarketOK
  <2>3. /\ \A i \in 1..3 : price(i) \in Nat /\ price(i) > 0
        /\ \A i \in 1..2 : price(i) <= price(i + 1)
    BY <2>2, ScaledTiers
  <2> HIDE DEF price
  <2>4. \A i \in 1..3 : price(i) * Gas \in Nat
    BY <2>3, PricesOrdered
  <2>5. \A i \in 1..2 : price(i) * Gas <= price(i + 1) * Gas
    <3>1. \A i \in 1..2 : i \in 1..3 /\ i + 1 \in 1..3
      OBVIOUS
    <3>2. QED
      BY <2>3, <3>1, PricesOrdered
  <2>6. ts \in [1..3 -> Tiers]
    BY <2>3, <2>4 DEF Tiers
  <2>7. \A i \in 1..3 : Usable(ts[i])
    BY <2>3 DEF Usable, Overridable
  <2>8. \A i \in 1..2 : ts[i].rate <= ts[i + 1].rate /\ ts[i].fee <= ts[i + 1].fee
    BY <2>3, <2>5
  <2> HIDE DEF ts
  <2>9. QED
    BY <2>1, <2>6, <2>7, <2>8 DEF TiersOK, Rising
<1>3. QED
  BY <1>1, <1>2

\* Whatever is answered, the tiers that are offered are usable.
LEMMA EstimatesOK ==
  ASSUME NEW ts \in Estimates, Active \in Accounts
  PROVE  TiersOK(ts)
<1>1. CASE currency = "btc"
  <2>1. PICK answers \in SeqOf(RateAnswers, 3) : ts = BitcoinTiers(ReliableRates(answers), Active)
    BY <1>1 DEF Estimates, RateEstimates
  <2>2. QED
    BY <1>1, <2>1, BitcoinTiersOK
<1>2. CASE currency # "btc"
  <2>1. PICK m \in Markets : ts = EthereumTiers(m) /\ (m.base > 0 \/ m.gasPrice > 0)
    BY <1>2 DEF Estimates
  <2>2. MarketOK(m)
    BY PaymentAssumption DEF MarketOK
  <2>3. QED
    BY <2>1, <2>2, EthereumTiersOK
<1>3. QED
  BY <1>1, <1>2

-----------------------------------------------------------------------------
(* What a Bitcoin payment plans.                                           *)

LEMMA CoinsAreValued ==
  ASSUME NEW cs \in SUBSET CoinRecords, IsFiniteSet(cs), NEW s \in SUBSET cs
  PROVE  Valued(cs) /\ Valued(s) /\ Sum(s) \in Nat /\ IsFiniteSet(s) /\ Cardinality(s) \in Nat
<1>1. Valued(cs)
  BY DEF Valued, CoinRecords
<1>2. Valued(s) /\ Cardinality(s) \in Nat
  BY <1>1, PartSize
<1>3. QED
  BY <1>1, <1>2, SumType DEF Valued

\* What the balance counts is what a maximum sweeps.
LEMMA SweepIsBalance ==
  ASSUME NEW cs \in SUBSET CoinRecords, IsFiniteSet(cs)
  PROVE  Sum(Sweepable(cs)) = Confirmed(cs) /\ Confirmed(cs) \in Nat
<1> DEFINE mined == {c \in cs : c.height > 0}
           own == {c \in cs : c.height = 0 /\ c.side = "internal"}
<1>1. \A c \in cs : c.height \in Nat
  BY DEF CoinRecords
<1>2. Sweepable(cs) = mined \cup own
  BY <1>1 DEF Sweepable, Settled
<1>3. mined \cap own = {}
  BY <1>1
<1>4. Valued(mined) /\ Valued(own) /\ Sum(mined) \in Nat /\ Sum(own) \in Nat
  BY CoinsAreValued
<1>5. Confirmed(cs) = Sum(mined) + Sum(own)
  BY Zenon DEF Confirmed
<1> HIDE DEF mined, own
<1>6. Sum(Sweepable(cs)) = Sum(mined \cup own)
  BY <1>2, Zenon
<1>7. QED
  BY <1>3, <1>4, <1>5, <1>6, SumDisjoint

LEMMA SelectionOK ==
  ASSUME NEW cs \in SUBSET CoinRecords, IsFiniteSet(cs), NEW target \in Nat, NEW rate \in Nat, NEW a \in Accounts,
         NEW x \in Selection(cs, target, rate, a)
  PROVE  /\ x.inputs \in SUBSET cs /\ x.inputs # {} /\ x.change \in Nat
         /\ x.change = 0 \/ x.change >= Dust
         /\ Sum(x.inputs) - target - x.change >= IF x.change > 0 THEN Full(rate, a, Cardinality(x.inputs))
                                                               ELSE Lean(rate, a, Cardinality(x.inputs))
         /\ Sum(x.inputs) - target - x.change < Full(rate, a, Cardinality(x.inputs)) + Dust
<1> DEFINE rest(inputs) == Sum(inputs) - target - Full(rate, a, Cardinality(inputs))
<1>1. PICK inputs \in SUBSET cs :
        /\ inputs # {} /\ rest(inputs) >= 0
        /\ x = [inputs |-> inputs, change |-> IF rest(inputs) < Dust THEN 0 ELSE rest(inputs)]
  BY Zenon DEF Selection, First, Full
<1>2. PICK r : r = rest(inputs)
  OBVIOUS
<1>3. x.inputs = inputs /\ x.change = IF r < Dust THEN 0 ELSE r
  BY <1>1, <1>2
<1>4. Sum(inputs) \in Nat /\ Cardinality(inputs) \in Nat
  BY CoinsAreValued
<1>5. PICK f \in Nat, l \in Nat : f = Full(rate, a, Cardinality(inputs)) /\ l = Lean(rate, a, Cardinality(inputs)) /\ l <= f
  BY <1>4, SizedType
<1>6. r \in Nat /\ Sum(inputs) = r + target + f
  BY <1>1, <1>2, <1>4, <1>5
<1>7. Dust \in Nat /\ Dust > 0
  BY PaymentAssumption
<1>8. QED
  BY <1>1, <1>3, <1>5, <1>6, <1>7

\* A plan that succeeds pays the amount shown and a fair fee; one that fails found other
\* coins than the maximum was calculated from.
LEMMA PlanOK ==
  ASSUME PopupTyped, ShownOK, page \in {"preview", "status"}, currency = "btc",
         NEW cs \in SUBSET CoinRecords, IsFiniteSet(cs), NEW a \in Accounts,
         NEW p, p = Plan(cs, a)
  PROVE  /\ p.error \in {"", "funds", "max changed"} /\ p.inputs \in SUBSET cs /\ p.change \in Nat
         /\ p.error = "" => p.inputs # {} /\ FeeOK(Sum(p.inputs) - shown.amount - p.change, p.change, p.inputs, a)
         /\ p.error # "" /\ shown.max => \A b \in Accounts : shown.basis # <<b, a, Sweepable(cs)>>
<1> DEFINE s == Swept(cs, shown.tier.rate, a)
           chosen == Selection(cs, shown.amount, shown.tier.rate, a)
           plan == [error |-> "", inputs |-> {}, change |-> 0]
           sweep == Sweepable(cs)
<1>1. shown.tier.rate \in Nat /\ shown.amount \in Nat /\ shown.max \in BOOLEAN
  BY DEF PopupTyped, Previews, Tiers
<1>2. sweep \in SUBSET cs /\ Sum(sweep) \in Nat /\ Cardinality(sweep) \in Nat
  <2>1. sweep \in SUBSET cs
    BY DEF Sweepable
  <2>2. QED
    BY <2>1, CoinsAreValued
<1>3. s.inputs = sweep /\ s.amount = Sum(sweep) - Lean(shown.tier.rate, a, Cardinality(sweep))
  BY DEF Swept, Lean
<1>4. /\ Lean(shown.tier.rate, a, Cardinality(sweep)) \in Nat
      /\ Lean(shown.tier.rate, a, Cardinality(sweep)) <= Full(shown.tier.rate, a, Cardinality(sweep))
      /\ Full(shown.tier.rate, a, Cardinality(sweep)) \in Nat
  BY <1>1, <1>2, SizedType
<1>5. Dust \in Nat /\ Dust > 0
  BY PaymentAssumption
<1> HIDE DEF s, chosen, sweep
<1>6. CASE shown.max /\ CanSweep(s) /\ s.amount = shown.amount
  <2>1. p = [plan EXCEPT !.inputs = s.inputs]
    BY <1>6 DEF Plan, s, chosen
  <2>2. p.error = "" /\ p.inputs = sweep /\ p.change = 0 /\ sweep # {}
    BY <1>3, <1>6, <2>1 DEF CanSweep
  <2>3. Sum(sweep) - shown.amount - 0 = Lean(shown.tier.rate, a, Cardinality(sweep))
    BY <1>1, <1>2, <1>3, <1>4, <1>6
  <2>4. FeeOK(Sum(sweep) - shown.amount - 0, 0, sweep, a)
    BY <1>4, <1>5, <2>3 DEF FeeOK
  <2>5. FeeOK(Sum(p.inputs) - shown.amount - p.change, p.change, p.inputs, a)
    BY <2>2, <2>4, Zenon
  <2>6. p.inputs \in SUBSET cs /\ p.inputs # {}
    BY <1>2, <2>2, Zenon
  <2>7. p.error = ""
    BY <2>2, Zenon
  <2>8. p.change \in Nat
    <3>1. p.change = 0
      BY <2>2, Zenon
    <3>2. QED
      BY <3>1
  <2>9. QED
    BY <2>5, <2>6, <2>7, <2>8, Zenon
<1>7. CASE shown.max /\ ~(CanSweep(s) /\ s.amount = shown.amount)
  <2>1. p.error \in {"funds", "max changed"} /\ p.inputs = {} /\ p.change = 0
    <3>1. CASE ~CanSweep(s)
      <4>1. p = [plan EXCEPT !.error = "funds"]
        BY <1>7, <3>1 DEF Plan, s, chosen
      <4>2. QED
        BY <4>1
    <3>2. CASE CanSweep(s)
      <4>1. p = [plan EXCEPT !.error = "max changed"]
        BY <1>7, <3>2 DEF Plan, s, chosen
      <4>2. QED
        BY <4>1
    <3>3. QED
      BY <3>1, <3>2
  <2>2. ASSUME NEW b \in Accounts, shown.basis = <<b, a, Sweepable(cs)>>
        PROVE  FALSE
    <3>1. SweepFits(shown.amount, shown.fee, shown.basis, shown.tier)
      BY <1>7 DEF ShownOK, MaxFits
    <3>2. shown.basis[2] = a /\ shown.basis[3] = sweep
      BY <2>2 DEF sweep
    <3>3. /\ sweep # {} /\ shown.fee = Lean(shown.tier.rate, a, Cardinality(sweep))
          /\ shown.amount = Sum(sweep) - shown.fee /\ shown.amount >= Dust
      BY <3>1, <3>2, Zenon DEF SweepFits
    <3>4. s.amount = shown.amount /\ CanSweep(s)
      BY <1>3, <3>3 DEF CanSweep
    <3>5. QED
      BY <1>7, <3>4
  <2>3. \A b \in Accounts : shown.basis # <<b, a, Sweepable(cs)>>
    BY <2>2
  <2>4. p.inputs \in SUBSET cs
    <3>1. {} \in SUBSET cs
      OBVIOUS
    <3>2. QED
      BY <2>1, <3>1, Zenon
  <2>5. p.change \in Nat
    <3>1. p.change = 0
      BY <2>1, Zenon
    <3>2. QED
      BY <3>1
  <2>6. p.error # "" /\ p.error \in {"", "funds", "max changed"}
    <3>1. p.error \in {"funds", "max changed"}
      BY <2>1, Zenon
    <3>2. QED
      BY <3>1
  <2>7. QED
    BY <2>3, <2>4, <2>5, <2>6, Zenon
<1>8. CASE ~shown.max /\ chosen = {}
  <2>1. p = [plan EXCEPT !.error = "funds"]
    BY <1>8 DEF Plan, s, chosen
  <2>2. p.error = "funds" /\ p.inputs = {} /\ p.change = 0
    BY <2>1
  <2>3. p.inputs \in SUBSET cs
    <3>1. {} \in SUBSET cs
      OBVIOUS
    <3>2. QED
      BY <2>2, <3>1, Zenon
  <2>4. p.change \in Nat
    <3>1. p.change = 0
      BY <2>2, Zenon
    <3>2. QED
      BY <3>1
  <2>5. QED
    BY <1>8, <2>2, <2>3, <2>4, Zenon
<1>9. CASE ~shown.max /\ chosen # {}
  <2> DEFINE plans == {[plan EXCEPT !.inputs = x.inputs, !.change = x.change] : x \in chosen}
  <2>1. p = CHOOSE y \in plans : TRUE
    BY <1>9 DEF Plan, s, chosen
  <2>2. PICK x \in chosen : p = [plan EXCEPT !.inputs = x.inputs, !.change = x.change]
    <3>1. plans # {}
      BY <1>9
    <3> HIDE DEF plans
    <3>2. p \in plans
      BY <2>1, <3>1
    <3>3. QED
      BY <3>2 DEF plans
  <2>3. p.error = "" /\ p.inputs = x.inputs /\ p.change = x.change
    BY <2>2
  <2>4. /\ x.inputs \in SUBSET cs /\ x.inputs # {} /\ x.change \in Nat
        /\ FeeOK(Sum(x.inputs) - shown.amount - x.change, x.change, x.inputs, a)
    BY <1>1, <1>9, SelectionOK DEF FeeOK, chosen
  <2>5. FeeOK(Sum(p.inputs) - shown.amount - p.change, p.change, p.inputs, a)
    BY <2>3, <2>4, Zenon
  <2>6. QED
    BY <1>9, <2>3, <2>4, <2>5
<1>10. QED
  BY <1>1, <1>6, <1>7, <1>8, <1>9
-----------------------------------------------------------------------------
(* The initial states, and what a step that leaves a part alone preserves. *)

LEMMA SomeAccount ==
  (CHOOSE a \in Accounts : TRUE) \in Accounts
BY PaymentAssumption DEF CoinRecords

LEMMA InitOK ==
  ASSUME Init
  PROVE  IInv
<1>1. WorldTyped
  <2>1. FirstTip \in Nat
    BY DEF FirstTip, Lag
  <2>2. world = [coins |-> Coins, tip |-> FirstTip, ether |-> Ether] /\ currency \in Currencies
    BY DEF Init
  <2>3. Coins \in SUBSET CoinRecords /\ IsFiniteSet(Coins) /\ Ether \in [Accounts -> EtherRecords]
    BY PaymentAssumption DEF EtherRecords
  <2>4. QED
    BY <2>1, <2>2, <2>3 DEF WorldTyped
<1>2. WalletTyped
  <2> DEFINE cache == [a \in Accounts |-> {c \in Coins : c.owner = a}]
             active == CHOOSE a \in Accounts : \E c \in Coins : c.owner = a
  <2>1. active \in Accounts
    <3>1. \E a \in Accounts : \E c \in Coins : c.owner = a
      BY PaymentAssumption DEF CoinRecords
    <3>2. QED
      BY <3>1
  <2>2. cache \in [Accounts -> SUBSET CoinRecords]
    BY PaymentAssumption
  <2>3. \A a \in Accounts : IsFiniteSet(cache[a])
    BY PaymentAssumption, FS_Subset
  <2>4. wallet = [active |-> active, locked |-> FALSE, cache |-> cache]
    BY Zenon DEF Init
  <2> HIDE DEF cache, active
  <2>5. QED
    BY <2>1, <2>2, <2>3, <2>4 DEF WalletTyped
<1>3. PopupTyped
  <2>1. NoForm \in Forms
    BY DEF NoForm, Forms, Bases
  <2>2. NoPreview \in Previews
    <3>1. NoTier \in Tiers
      BY DEF NoTier, Tiers
    <3>2. QED
      BY <3>1 DEF NoPreview, Previews, Bases
  <2>3. Unknown \in Int
    BY DEF Unknown
  <2>4. QED
    BY <2>1, <2>2, <2>3 DEF Init, PopupTyped, Texts
<1>4. AttemptsTyped
  <2>1. NoAttempt \in AttemptRecords /\ IsFiniteSet(NoAttempt.inputs)
    BY SomeAccount, FS_EmptySet DEF NoAttempt, AttemptRecords, Bases, Errors, Texts
  <2>2. QED
    BY <2>1 DEF Init, AttemptsTyped
<1>5. moves \in 0..MaxMoves
  <2>1. MaxMoves \in Nat /\ moves = MaxMoves
    BY PaymentAssumption DEF Init
  <2>2. QED
    BY <2>1
<1>6. FormsOK
  BY DEF Init, FormsOK, OptionsOK, FormOK, RequestsOK, NoForm
<1>7. PaidOK
  <2>1. \A i \in 1..MaxAttempts : attempts[i] = NoAttempt
    BY DEF Init
  <2>2. NoAttempt.pc = "none" /\ NoAttempt.error = ""
    BY DEF NoAttempt
  <2>3. sent = {} /\ page = "send" /\ ~screen.confirming
    BY DEF Init
  <2>4. ShownOK /\ StatusOK
    BY <2>1, <2>2, <2>3 DEF ShownOK, StatusOK
  <2>5. \A i \in 1..MaxAttempts : AttemptOK(i, attempts[i], sent)
    BY <2>1, <2>2 DEF AttemptOK
  <2>6. QED
    BY <2>3, <2>4, <2>5 DEF PaidOK
<1>8. QED
  BY <1>1, <1>2, <1>3, <1>4, <1>5, <1>6, <1>7 DEF IInv, Typed

LEMMA FitsStay ==
  ASSUME UNCHANGED currency, NEW amount, NEW fee, NEW basis, NEW tier
  PROVE  MaxFits(amount, fee, basis, tier)' <=> MaxFits(amount, fee, basis, tier)
BY DEF MaxFits, EtherFits, Gas

LEMMA FormsStay ==
  ASSUME FormsOK, UNCHANGED <<currency, fiat, options, form, requests>>, page = "options" => page' = "options"
  PROVE  FormsOK'
<1>1. OptionsOK'
  BY DEF FormsOK, OptionsOK, TiersOK, Usable, Gas
<1>2. FormOK'
  BY FitsStay DEF FormsOK, FormOK
<1>3. RequestsOK'
  BY DEF FormsOK, RequestsOK
<1>4. QED
  BY <1>1, <1>2, <1>3 DEF FormsOK

LEMMA PaidStays ==
  ASSUME PaidOK, UNCHANGED <<currency, shown, screen, attempts, sent>>,
         page' = page \/ (page = "send" /\ page' = "options")
  PROVE  PaidOK'
<1>1. ShownOK'
  BY FitsStay DEF PaidOK, ShownOK, Usable, Gas
<1>2. StatusOK'
  BY DEF PaidOK, StatusOK, Running
<1>3. (\A i \in 1..MaxAttempts : AttemptOK(i, attempts[i], sent))'
  BY DEF PaidOK, AttemptOK, FeeOK
<1>4. (\A t \in sent : SentOK(t, attempts[t.attempt]))'
  BY DEF PaidOK, SentOK, FeeOK
<1>5. QED
  BY <1>1, <1>2, <1>3, <1>4 DEF PaidOK

-----------------------------------------------------------------------------
(* The form of the popup.                                                  *)

\* A step of the popup's form alone.
LEMMA OnlyTheForm ==
  ASSUME IInv, UNCHANGED <<currency, world, wallet, page, shown, screen, attempts, sent>>,
         known' \in [asset : Int, gas : Int], fiat' \in FiatRates \cup {0}, options' \in [1..3 -> Tiers] \cup {<<>>},
         form' \in Forms, moves' \in 0..MaxMoves, FormsOK'
  PROVE  IInv'
<1>1. WorldTyped' /\ WalletTyped' /\ PopupTyped' /\ AttemptsTyped'
  BY DEF IInv, Typed, WorldTyped, WalletTyped, PopupTyped, AttemptsTyped
<1>2. PaidOK'
  BY PaidStays DEF IInv
<1>3. QED
  BY <1>1, <1>2 DEF IInv, Typed

LEMMA MovesStay ==
  ASSUME moves \in 0..MaxMoves
  PROVE  /\ MayMove /\ moves' = moves - 1 => moves' \in 0..MaxMoves
         /\ UNCHANGED moves => moves' \in 0..MaxMoves
<1>1. MaxMoves \in Nat
  BY PaymentAssumption
<1>2. QED
  BY <1>1 DEF MayMove

LEMMA RateCancels ==
  ASSUME NEW n \in Nat, NEW r \in Nat \ {0}
  PROVE  (n * r) \div r = n /\ n * r \in Nat /\ n \div r \in Nat
OBVIOUS

LEMMA CoupledOK ==
  ASSUME NEW f \in Forms, NEW rate \in FiatRates \cup {0}, NEW g, g = Coupled(f, rate)
  PROVE  /\ g \in Forms
         /\ rate # 0 => g.amount = g.usd \div rate
         /\ f.edited = "asset" => g.amount = f.amount
         /\ g.edited = f.edited /\ g.max = f.max /\ g.maxFee = f.maxFee /\ g.loading = f.loading /\ g.ref = f.ref
         /\ g.selected = f.selected /\ g.basis = f.basis /\ g.netted = f.netted
<1>1. f.amount \in Nat /\ f.usd \in Nat /\ f.edited \in {"asset", "usd"}
  BY DEF Forms
<1>2. rate # 0 => rate \in Nat \ {0}
  BY PaymentAssumption
<1>3. CASE rate = 0
  <2>1. CASE f.edited = "asset"
    <3>1. g = [f EXCEPT !.usd = 0]
      BY <1>3, <2>1 DEF Coupled
    <3>2. QED
      BY <1>3, <3>1 DEF Forms
  <2>2. CASE f.edited # "asset"
    <3>1. g = f
      BY <1>3, <2>2 DEF Coupled
    <3>2. QED
      BY <1>3, <2>2, <3>1 DEF Forms
  <2>3. QED
    BY <2>1, <2>2
<1>4. CASE rate # 0 /\ f.edited = "asset"
  <2>1. g = [f EXCEPT !.usd = f.amount * rate]
    BY <1>4 DEF Coupled
  <2>2. f.amount * rate \in Nat /\ (f.amount * rate) \div rate = f.amount
    BY <1>1, <1>2, <1>4, RateCancels
  <2>3. QED
    BY <2>1, <2>2 DEF Forms
<1>5. CASE rate # 0 /\ f.edited # "asset"
  <2>1. g = [f EXCEPT !.amount = f.usd \div rate]
    BY <1>5 DEF Coupled
  <2>2. f.usd \div rate \in Nat
    BY <1>1, <1>2, <1>5, RateCancels
  <2>3. QED
    BY <1>5, <2>1, <2>2 DEF Forms
<1>6. QED
  BY <1>3, <1>4, <1>5

LEMMA BalanceTyped ==
  ASSUME WorldTyped, WalletTyped
  PROVE  BalanceNow \in [asset : Int, gas : Int]
<1>1. Active \in Accounts
  BY DEF WalletTyped, Active
<1>2. wallet.cache[Active] \in SUBSET CoinRecords /\ IsFiniteSet(wallet.cache[Active])
  BY <1>1 DEF WalletTyped
<1>3. Confirmed(wallet.cache[Active]) \in Int
  BY <1>2, SweepIsBalance
<1>4. world.ether[Active].wei \in Int /\ world.ether[Active].tokens \in Int
  BY <1>1 DEF WorldTyped, EtherRecords
<1>5. QED
  BY <1>3, <1>4 DEF BalanceNow

LEMMA ShowBalanceKeeps ==
  ASSUME IInv, ShowBalance
  PROVE  IInv'
<1>1. known' \in [asset : Int, gas : Int]
  BY BalanceTyped DEF ShowBalance, IInv, Typed
<1>2. FormsOK'
  BY FormsStay DEF ShowBalance, IInv
<1>3. QED
  BY <1>1, <1>2, OnlyTheForm DEF ShowBalance, IInv, Typed, PopupTyped

LEMMA OpenOptionsKeeps ==
  ASSUME IInv, OpenOptions
  PROVE  IInv'
<1>1. FormsOK'
  BY FormsStay DEF OpenOptions, IInv
<1>2. PaidOK'
  BY PaidStays DEF OpenOptions, IInv
<1>3. WorldTyped' /\ WalletTyped' /\ PopupTyped' /\ AttemptsTyped' /\ (moves \in 0..MaxMoves)'
  BY DEF OpenOptions, IInv, Typed, WorldTyped, WalletTyped, PopupTyped, AttemptsTyped
<1>4. QED
  BY <1>1, <1>2, <1>3 DEF IInv, Typed

LEMMA FeesArriveKeeps ==
  ASSUME IInv, FeesArrive
  PROVE  IInv'
<1>1. TiersOK(options')
  BY EstimatesOK DEF FeesArrive, IInv, Typed, WalletTyped, Active
<1>2. OptionsOK'
  BY <1>1 DEF OptionsOK, TiersOK, Usable, Gas, FeesArrive
<1>3. ~form.max /\ ~form.loading /\ requests = {}
  BY DEF FeesArrive, IInv, FormsOK, FormOK, RequestsOK
<1>4. FormOK' /\ RequestsOK'
  BY <1>3 DEF FeesArrive, IInv, FormsOK, FormOK, RequestsOK
<1>5. options' \in [1..3 -> Tiers]
  BY <1>1 DEF TiersOK
<1>6. QED
  BY <1>2, <1>4, <1>5, OnlyTheForm DEF FeesArrive, IInv, Typed, PopupTyped, FormsOK

LEMMA OptionsStay ==
  ASSUME OptionsOK, UNCHANGED <<currency, options>>
  PROVE  OptionsOK'
BY DEF OptionsOK, TiersOK, Usable, Gas

LEMMA ClearedOK ==
  ASSUME NEW f \in Forms, NEW g, g = Cleared(f)
  PROVE  /\ g \in Forms /\ ~g.max /\ ~g.loading /\ g.ref = f.ref + 1 /\ g.selected = f.selected
         /\ g.amount = f.amount /\ g.usd = f.usd
<1>1. f.ref + 1 \in Nat /\ <<>> \in Bases /\ 0 \in 0..3
  BY DEF Forms, Bases
<1>2. g = [f EXCEPT !.ref = f.ref + 1, !.max = FALSE, !.maxFee = Unknown, !.loading = FALSE, !.basis = <<>>, !.netted = 0]
  BY DEF Cleared
<1>3. QED
  BY <1>1, <1>2 DEF Forms

LEMMA FiatRateArrivesKeeps ==
  ASSUME IInv, FiatRateArrives
  PROVE  IInv'
<1>1. PICK rate \in FiatRates \cup {0} :
        MayMove /\ fiat' = rate /\ form' = Coupled(form, rate) /\ moves' = moves - 1
  BY DEF FiatRateArrives
<1>2. UNCHANGED <<currency, world, wallet, page, known, options, requests, shown, screen, attempts, sent>>
  BY DEF FiatRateArrives
<1>3. /\ form' \in Forms
      /\ rate # 0 => form'.amount = form'.usd \div rate
      /\ form.edited = "asset" => form'.amount = form.amount
      /\ form'.edited = form.edited /\ form'.max = form.max /\ form'.maxFee = form.maxFee
      /\ form'.loading = form.loading /\ form'.ref = form.ref
      /\ form'.selected = form.selected /\ form'.basis = form.basis /\ form'.netted = form.netted
  BY <1>1, CoupledOK DEF IInv, Typed, PopupTyped
<1>4. OptionsOK'
  BY <1>2, OptionsStay DEF IInv, FormsOK
<1>5. RequestsOK'
  BY <1>2, <1>3 DEF IInv, FormsOK, RequestsOK
<1>6. FormOK'
  <2>1. form.max => form'.amount = form.amount
    BY <1>3 DEF IInv, FormsOK, FormOK
  <2>2. QED
    BY <1>1, <1>2, <1>3, <2>1, FitsStay DEF IInv, FormsOK, FormOK
<1>7. (moves \in 0..MaxMoves)'
  BY <1>1, MovesStay DEF IInv, Typed
<1>8. QED
  BY <1>1, <1>2, <1>3, <1>4, <1>5, <1>6, <1>7, OnlyTheForm DEF IInv, Typed, PopupTyped, FormsOK

\* A form that is not for a maximum.
LEMMA PlainForm ==
  ASSUME IInv, UNCHANGED <<currency, world, wallet, page, known, fiat, options, shown, screen, attempts, sent, moves>>,
         NEW f \in Forms, form' = Coupled(f, fiat), ~f.max, ~f.loading, requests' = {}
  PROVE  IInv'
<1>1. /\ form' \in Forms /\ ~form'.max /\ ~form'.loading
      /\ fiat # 0 => form'.amount = form'.usd \div fiat
  BY CoupledOK DEF IInv, Typed, PopupTyped
<1>2. FormsOK'
  BY <1>1, OptionsStay DEF IInv, FormsOK, FormOK, RequestsOK
<1>3. QED
  BY <1>1, <1>2, OnlyTheForm DEF IInv, Typed, PopupTyped

LEMMA ReadyForm ==
  ASSUME IInv, Ready
  PROVE  form \in Forms /\ form.ref \in Nat /\ ~form.loading /\ requests = {} /\ options # <<>>
BY DEF IInv, Typed, PopupTyped, FormsOK, RequestsOK, Ready, Forms

LEMMA TypeAmountKeeps ==
  ASSUME IInv, NEW n \in Amounts, TypeAmount(n)
  PROVE  IInv'
<1> DEFINE f == [Cleared(form) EXCEPT !.edited = "asset", !.amount = n]
<1>1. form \in Forms /\ form.ref \in Nat /\ requests = {}
  BY ReadyForm DEF TypeAmount
<1>2. n \in Nat
  BY PaymentAssumption
<1>3. PICK g \in Forms : g = Cleared(form) /\ ~g.max /\ ~g.loading
  BY <1>1, ClearedOK
<1>4. f \in Forms /\ ~f.max /\ ~f.loading
  BY <1>2, <1>3 DEF Forms
<1>5. form' = Coupled(f, fiat)
  BY DEF TypeAmount, Rendered
<1> HIDE DEF f
<1>6. QED
  BY <1>1, <1>4, <1>5, PlainForm DEF TypeAmount

LEMMA TypeFiatKeeps ==
  ASSUME IInv, NEW n \in FiatAmounts, TypeFiat(n)
  PROVE  IInv'
<1> DEFINE f == [Cleared(form) EXCEPT !.edited = "usd", !.usd = n]
<1>1. form \in Forms /\ form.ref \in Nat /\ requests = {}
  BY ReadyForm DEF TypeFiat
<1>2. n \in Nat
  BY PaymentAssumption
<1>3. PICK g \in Forms : g = Cleared(form) /\ ~g.max /\ ~g.loading
  BY <1>1, ClearedOK
<1>4. f \in Forms /\ ~f.max /\ ~f.loading
  BY <1>2, <1>3 DEF Forms
<1>5. form' = Coupled(f, fiat)
  BY DEF TypeFiat, Rendered
<1> HIDE DEF f
<1>6. QED
  BY <1>1, <1>4, <1>5, PlainForm DEF TypeFiat

\* A calculation of the maximum begins.
LEMMA RunMaxSendKeeps ==
  ASSUME IInv, Ready, NEW f \in Forms, f.max => f.edited = "asset", RunMaxSend(f),
         UNCHANGED <<currency, world, wallet, page, known, fiat, options, shown, screen, attempts, sent, moves>>
  PROVE  IInv'
<1> DEFINE g == [f EXCEPT !.ref = @ + 1, !.loading = TRUE]
           q == [id |-> f.ref + 1, selected |-> f.selected, from |-> Active]
<1>1. f.ref \in Nat /\ f.ref + 1 \in Nat /\ f.selected \in 1..3
  BY DEF Forms
<1>2. g \in Forms /\ g.ref = f.ref + 1 /\ g.loading /\ g.selected = f.selected /\ g.edited = f.edited /\ g.max = f.max
  BY <1>1 DEF Forms
<1>3. form' = Coupled(g, fiat)
  BY DEF RunMaxSend, Rendered
<1> HIDE DEF g
<1>4. /\ form' \in Forms
      /\ fiat # 0 => form'.amount = form'.usd \div fiat
      /\ form'.ref = f.ref + 1 /\ form'.loading /\ form'.selected = f.selected /\ form'.edited = f.edited /\ form'.max = f.max
  BY <1>2, <1>3, CoupledOK DEF IInv, Typed, PopupTyped
<1>5. requests' = {q} /\ page = "options" /\ options # <<>>
  BY ReadyForm DEF RunMaxSend, Ready
<1>6. q \in Requested /\ q.id = f.ref + 1 /\ q.selected = f.selected
  <2>1. Active \in Accounts
    BY DEF IInv, Typed, WalletTyped, Active
  <2>2. QED
    BY <1>1, <2>1 DEF Requested
<1> HIDE DEF q
<1>7. RequestsOK'
  BY <1>4, <1>5, <1>6 DEF RequestsOK
<1>8. FormsOK'
  BY <1>4, <1>5, <1>7, OptionsStay DEF IInv, FormsOK, FormOK
<1>9. QED
  BY <1>4, <1>8, OnlyTheForm DEF IInv, Typed, PopupTyped

LEMMA PressMaxKeeps ==
  ASSUME IInv, PressMax
  PROVE  IInv'
BY RunMaxSendKeeps, ReadyForm DEF PressMax, IInv, FormsOK, FormOK

LEMMA SelectFeeKeeps ==
  ASSUME IInv, NEW k \in 1..3, SelectFee(k)
  PROVE  IInv'
<1>1. form \in Forms /\ form.ref \in Nat /\ ~form.loading /\ requests = {} /\ Ready
  BY ReadyForm DEF SelectFee
<1>2. CASE form.max
  <2> DEFINE f == [form EXCEPT !.selected = k, !.ref = @ + 1, !.maxFee = Unknown, !.amount = 0, !.usd = 0]
  <2>1. f \in Forms /\ f.edited = form.edited
    <3>1. form.ref + 1 \in Nat
      BY <1>1
    <3>2. QED
      BY <1>1, <3>1 DEF Forms
  <2>2. form.edited = "asset"
    BY <1>2 DEF IInv, FormsOK, FormOK
  <2>3. RunMaxSend(f)
    BY <1>2 DEF SelectFee
  <2> HIDE DEF f
  <2>4. QED
    BY <1>1, <2>1, <2>2, <2>3, RunMaxSendKeeps DEF SelectFee
<1>3. CASE ~form.max
  <2>1. form' = [form EXCEPT !.selected = k] /\ requests' = requests
    BY <1>3 DEF SelectFee
  <2>2. form' \in Forms /\ ~form'.max /\ ~form'.loading /\ form'.amount = form.amount /\ form'.usd = form.usd
    BY <1>1, <1>3, <2>1 DEF Forms
  <2>3. FormsOK'
    BY <1>1, <2>1, <2>2, OptionsStay DEF IInv, FormsOK, FormOK, RequestsOK, SelectFee
  <2>4. QED
    BY <2>2, <2>3, OnlyTheForm DEF SelectFee, IInv, Typed, PopupTyped
<1>4. QED
  BY <1>2, <1>3

LEMMA SweepableTwice ==
  ASSUME NEW cs
  PROVE  Sweepable(Sweepable(cs)) = Sweepable(cs)
BY DEF Sweepable

LEMMA ViewsOf ==
  ASSUME NEW cs \in SUBSET CoinRecords, IsFiniteSet(cs), NEW view \in Views(cs)
  PROVE  view \in SUBSET cs /\ view \in SUBSET CoinRecords /\ IsFiniteSet(view)
<1>1. view \in SUBSET cs
  BY DEF Views
<1>2. QED
  BY <1>1, FS_Subset

\* The sweep of some coins fits the tier it was calculated for.
LEMMA SweptFits ==
  ASSUME NEW cs \in SUBSET CoinRecords, IsFiniteSet(cs), NEW a \in Accounts, NEW b \in Accounts, NEW tier \in Tiers,
         NEW s, s = Swept(cs, tier.rate, a), CanSweep(s)
  PROVE  /\ s.amount \in Nat /\ s.fee \in Nat /\ s.inputs \in SUBSET CoinRecords
         /\ SweepFits(s.amount, s.fee, <<b, a, s.inputs>>, tier)
<1>1. PICK w : w = Sweepable(cs)
  OBVIOUS
<1>2. w \in SUBSET cs /\ w \in SUBSET CoinRecords
  BY <1>1 DEF Sweepable
<1>3. Sum(w) \in Nat /\ Cardinality(w) \in Nat /\ IsFiniteSet(w)
  BY <1>2, CoinsAreValued
<1>4. s.inputs = w /\ s.fee = Lean(tier.rate, a, Cardinality(w)) /\ s.amount = Sum(w) - Lean(tier.rate, a, Cardinality(w))
  BY <1>1 DEF Swept, Lean
<1>5. tier.rate \in Nat
  BY DEF Tiers
<1>6. Lean(tier.rate, a, Cardinality(w)) \in Nat
  BY <1>3, <1>5, SizedType
<1>7. w # {} /\ s.amount >= Dust
  BY <1>4 DEF CanSweep
<1>8. Dust \in Nat
  BY PaymentAssumption
<1>9. s.amount \in Nat /\ s.fee \in Nat
  BY <1>3, <1>4, <1>6, <1>7, <1>8
<1>10. Sweepable(w) = w
  BY <1>1, SweepableTwice, Zenon
<1>11. SweepFits(s.amount, s.fee, <<b, a, w>>, tier)
  <2>1. <<b, a, w>>[1] = b /\ <<b, a, w>>[2] = a /\ <<b, a, w>>[3] = w
    OBVIOUS
  <2>2. s.amount = Sum(w) - s.fee
    BY <1>4, Zenon
  <2>3. QED
    BY <1>2, <1>3, <1>4, <1>7, <1>10, <2>1, <2>2, Zenon DEF SweepFits
<1>12. QED
  BY <1>2, <1>4, <1>9, <1>11, Zenon

LEMMA MaximaOK ==
  ASSUME IInv, NEW q \in Requested, options # <<>>, NEW m \in Maxima(q), m.ok
  PROVE  /\ m.amount \in Nat /\ m.fee \in Nat /\ m.basis \in Bases
         /\ MaxFits(m.amount, m.fee, m.basis, options[q.selected])
<1>1. q.selected \in 1..3 /\ q.from \in Accounts
  BY DEF Requested
<1>2. options[q.selected] \in Tiers
  BY <1>1 DEF IInv, Typed, PopupTyped
<1>3. Active \in Accounts
  BY DEF IInv, Typed, WalletTyped, Active
<1>4. currency \in {"btc", "eth", "usdt"}
  BY PaymentAssumption DEF IInv, Typed, WorldTyped
<1>5. CASE currency = "btc"
  <2>1. PICK cs \in Views(wallet.cache[q.from]) :
          LET s == Swept(cs, options[q.selected].rate, Active)
          IN m = [ok |-> CanSweep(s), amount |-> s.amount, fee |-> s.fee, basis |-> <<q.from, Active, s.inputs>>]
    BY <1>5 DEF Maxima, BitcoinMaxima
  <2>2. PICK s : s = Swept(cs, options[q.selected].rate, Active)
    OBVIOUS
  <2>3. CanSweep(s) /\ m.amount = s.amount /\ m.fee = s.fee /\ m.basis = <<q.from, Active, s.inputs>>
    BY <2>1, <2>2
  <2>4. cs \in SUBSET CoinRecords /\ IsFiniteSet(cs)
    <3>1. wallet.cache[q.from] \in SUBSET CoinRecords /\ IsFiniteSet(wallet.cache[q.from])
      BY <1>1 DEF IInv, Typed, WalletTyped
    <3>2. QED
      BY <3>1, ViewsOf
  <2>5. /\ s.amount \in Nat /\ s.fee \in Nat /\ s.inputs \in SUBSET CoinRecords
        /\ SweepFits(s.amount, s.fee, <<q.from, Active, s.inputs>>, options[q.selected])
    BY <1>1, <1>2, <1>3, <2>2, <2>3, <2>4, SweptFits
  <2>6. <<q.from, Active, s.inputs>> \in Bases
    BY <1>1, <1>3, <2>5 DEF Bases
  <2>7. SweepFits(m.amount, m.fee, m.basis, options[q.selected])
    BY <2>3, <2>5, Zenon
  <2>8. QED
    BY <1>5, <2>3, <2>5, <2>6, <2>7 DEF MaxFits
<1>6. CASE currency # "btc"
  <2> DEFINE ether == world.ether[q.from]
             reserve == options[q.selected].cap * Gas
             most == Max({ether.wei - reserve, 0})
  <2>1. m = [ok |-> TRUE, fee |-> reserve, basis |-> <<q.from, ether>>,
             amount |-> IF currency = "usdt" THEN ether.tokens ELSE most]
    BY <1>6 DEF Maxima, EthereumMaximum, Reserve
  <2>2. ether \in EtherRecords
    BY <1>1 DEF IInv, Typed, WorldTyped
  <2>3. reserve \in Nat
    BY <1>2, GasType DEF Tiers
  <2>4. ether.wei \in Nat /\ ether.tokens \in Nat
    BY <2>2 DEF EtherRecords
  <2>5. most \in Nat
    BY <2>3, <2>4, GreaterOfTwo
  <2> HIDE DEF ether, reserve, most
  <2>6. m.fee = reserve /\ m.basis = <<q.from, ether>> /\ m.amount = IF currency = "usdt" THEN ether.tokens ELSE most
    BY <2>1
  <2>7. <<q.from, ether>> \in Bases
    BY <1>1, <2>2 DEF Bases
  <2>8. ASSUME currency = "eth"
        PROVE  EtherFits(m.amount, m.fee, m.basis, options[q.selected])
    <3>1. m.basis[1] = q.from /\ m.basis[2] = ether /\ m.basis = <<m.basis[1], m.basis[2]>>
      BY <2>6
    <3>2. m.amount = most
      BY <2>6, <2>8
    <3>3. m.amount = Max({m.basis[2].wei - m.fee, 0})
      BY <2>6, <3>1, <3>2, Zenon DEF most
    <3>4. QED
      BY <1>1, <2>2, <2>6, <3>1, <3>3, Zenon DEF EtherFits, reserve
  <2>9. QED
    BY <1>6, <2>3, <2>4, <2>5, <2>6, <2>7, <2>8 DEF MaxFits
<1>7. QED
  BY <1>5, <1>6

\* The calculation that is running is for the form as it is.
LEMMA OneRequest ==
  ASSUME IInv, NEW q \in requests
  PROVE  /\ requests = {q} /\ requests \ {q} = {} /\ q \in Requested /\ q.id = form.ref /\ q.selected = form.selected
         /\ options # <<>>
<1>1. form.loading
  BY DEF IInv, FormsOK, RequestsOK
<1>2. QED
  BY <1>1 DEF IInv, FormsOK, RequestsOK, FormOK

\* Nothing came of it: the form is emptied.
LEMMA NoMaximum ==
  ASSUME IInv, NEW q \in requests, requests' = requests \ {q},
         Rendered([Cleared(form) EXCEPT !.ref = form.ref, !.amount = 0, !.usd = 0]),
         UNCHANGED <<currency, world, wallet, page, known, fiat, options, shown, screen, attempts, sent, moves>>
  PROVE  IInv'
<1> DEFINE f == [Cleared(form) EXCEPT !.ref = form.ref, !.amount = 0, !.usd = 0]
<1>1. form \in Forms /\ form.ref \in Nat
  BY DEF IInv, Typed, PopupTyped, Forms
<1>2. PICK g \in Forms : g = Cleared(form) /\ ~g.max /\ ~g.loading
  BY <1>1, ClearedOK
<1>3. f \in Forms /\ ~f.max /\ ~f.loading
  BY <1>1, <1>2 DEF Forms
<1>4. form' = Coupled(f, fiat)
  BY DEF Rendered
<1>5. requests' = {}
  BY OneRequest
<1> HIDE DEF f
<1>6. QED
  BY <1>3, <1>4, <1>5, PlainForm

LEMMA MaxFailsKeeps ==
  ASSUME IInv, NEW q \in requests, MaxFails(q)
  PROVE  IInv'
<1>1. q.id = form.ref
  BY OneRequest
<1>2. QED
  BY <1>1, NoMaximum DEF MaxFails

LEMMA MaxArrivesKeeps ==
  ASSUME IInv, NEW q \in requests, MaxArrives(q)
  PROVE  IInv'
<1>1. /\ requests \ {q} = {} /\ q \in Requested /\ q.id = form.ref /\ q.selected = form.selected
      /\ options # <<>>
  BY OneRequest
<1>2. PICK m \in Maxima(q) :
        /\ requests' = requests \ {q}
        /\ m.ok => Rendered([form EXCEPT !.max = TRUE, !.maxFee = m.fee, !.edited = "asset", !.amount = m.amount,
                                         !.loading = FALSE, !.basis = m.basis, !.netted = q.selected])
        /\ ~m.ok => Rendered([Cleared(form) EXCEPT !.ref = form.ref, !.amount = 0, !.usd = 0])
  BY <1>1 DEF MaxArrives
<1>3. UNCHANGED <<currency, world, wallet, page, known, fiat, options, shown, screen, attempts, sent, moves>>
  BY DEF MaxArrives
<1>4. CASE ~m.ok
  BY <1>2, <1>3, <1>4, NoMaximum
<1>5. CASE m.ok
  <2> DEFINE f == [form EXCEPT !.max = TRUE, !.maxFee = m.fee, !.edited = "asset", !.amount = m.amount,
                               !.loading = FALSE, !.basis = m.basis, !.netted = q.selected]
  <2>1. /\ m.amount \in Nat /\ m.fee \in Nat /\ m.basis \in Bases
        /\ MaxFits(m.amount, m.fee, m.basis, options[q.selected])
    BY <1>1, <1>5, MaximaOK
  <2>2. q.selected \in 0..3 /\ form \in Forms
    BY <1>1 DEF Requested, IInv, Typed, PopupTyped
  <2>3. f \in Forms
    BY <2>1, <2>2 DEF Forms
  <2>4. /\ f.max = TRUE /\ f.maxFee = m.fee /\ f.edited = "asset" /\ f.amount = m.amount /\ f.loading = FALSE
        /\ f.basis = m.basis /\ f.netted = q.selected /\ f.selected = form.selected
    BY <2>2 DEF Forms
  <2>5. form' = Coupled(f, fiat)
    BY <1>2, <1>5 DEF Rendered
  <2> HIDE DEF f
  <2>6. /\ form' \in Forms
        /\ fiat # 0 => form'.amount = form'.usd \div fiat
        /\ form'.amount = m.amount
        /\ form'.max = TRUE /\ form'.maxFee = m.fee /\ form'.edited = "asset" /\ form'.loading = FALSE
        /\ form'.basis = m.basis /\ form'.netted = q.selected /\ form'.selected = form.selected
    BY <2>3, <2>4, <2>5, CoupledOK DEF IInv, Typed, PopupTyped
  <2>7. FormOK'
    <3>1. MaxFits(m.amount, m.fee, m.basis, options[q.selected])'
      BY <1>3, <2>1, FitsStay
    <3>2. QED
      BY <1>1, <1>3, <2>6, <3>1 DEF FormOK
  <2>8. RequestsOK'
    BY <1>1, <1>2, <2>6 DEF RequestsOK
  <2>9. FormsOK'
    BY <1>3, <2>7, <2>8, OptionsStay DEF FormsOK, IInv
  <2>10. QED
    BY <1>3, <2>6, <2>9, OnlyTheForm DEF IInv, Typed, PopupTyped
<1>6. QED
  BY <1>4, <1>5

LEMMA OpenPreviewKeeps ==
  ASSUME IInv, OpenPreview
  PROVE  IInv'
<1> DEFINE tier == options[form.selected]
<1>1. /\ form \in Forms /\ ~form.loading /\ requests = {} /\ options # <<>> /\ page = "options" /\ form.amount > 0
  BY ReadyForm DEF OpenPreview, Ready
<1>2. /\ form.selected \in 1..3 /\ form.amount \in Nat /\ form.usd \in Nat /\ form.maxFee \in Nat \cup {Unknown}
      /\ form.max \in BOOLEAN /\ form.basis \in Bases /\ form.netted \in 0..3 /\ form.selected \in 0..3
  BY <1>1 DEF Forms
<1>3. TiersOK(options)
  BY <1>1 DEF IInv, FormsOK, OptionsOK
<1>4. tier \in Tiers /\ Usable(tier)
  BY <1>2, <1>3 DEF TiersOK
<1>5. form.max => form.netted = form.selected /\ MaxFits(form.amount, form.maxFee, form.basis, tier)
  BY <1>1 DEF IInv, FormsOK, FormOK
<1>6. fiat # 0 => fiat \in FiatRates /\ form.amount = form.usd \div fiat
  BY DEF IInv, Typed, PopupTyped, FormsOK, FormOK
<1>7. currency \in {"btc", "eth", "usdt"}
  BY PaymentAssumption DEF IInv, Typed, WorldTyped
<1> DEFINE usd == IF fiat # 0 THEN form.usd ELSE Unknown
           fee == IF form.max /\ currency # "usdt" THEN form.maxFee ELSE tier.fee
<1>8. fee \in Nat
  <2>1. tier.fee \in Nat /\ tier.rate \in Nat /\ tier.cap \in Nat
    BY <1>4 DEF Tiers
  <2>2. CASE form.max /\ currency = "btc"
    <3>1. SweepFits(form.amount, form.maxFee, form.basis, tier)
      BY <1>5, <2>2 DEF MaxFits
    <3>2. /\ form.basis[2] \in Accounts
          /\ Cardinality(form.basis[3]) \in Nat
          /\ form.maxFee = Lean(tier.rate, form.basis[2], Cardinality(form.basis[3]))
      BY <3>1, CoinsAreValued DEF SweepFits
    <3>3. form.maxFee \in Nat
      BY <2>1, <3>2, SizedType
    <3>4. QED
      BY <2>2, <3>3
  <2>3. CASE form.max /\ currency = "eth"
    <3>1. form.maxFee = tier.cap * Gas
      BY <1>5, <2>3 DEF MaxFits, EtherFits
    <3>2. form.maxFee \in Nat
      BY <2>1, <3>1, GasType
    <3>3. QED
      BY <2>3, <3>2
  <2>4. QED
    BY <1>7, <2>1, <2>2, <2>3
<1>9. currency # "btc" => fee = tier.cap * Gas
  BY <1>4, <1>5, <1>7 DEF MaxFits, EtherFits, Usable
<1>10. usd \in Nat \cup {Unknown}
  BY <1>2
<1>11. shown' = [amount |-> form.amount, usd |-> usd, fee |-> fee, tier |-> tier, selected |-> form.selected,
                 max |-> form.max, basis |-> form.basis, netted |-> form.netted]
  BY DEF OpenPreview
<1>12. form.max => MaxFits(form.amount, fee, form.basis, tier)
  BY <1>5, <1>7 DEF MaxFits
<1>13. PICK t, u, f : t = tier /\ u = usd /\ f = fee
  OBVIOUS
<1>14. /\ t \in Tiers /\ Usable(t) /\ f \in Nat /\ u \in Nat \cup {Unknown}
       /\ currency # "btc" => f = t.cap * Gas
       /\ form.max => form.netted = form.selected /\ MaxFits(form.amount, f, form.basis, t)
       /\ u # Unknown => \E rate \in FiatRates : form.amount = u \div rate
       /\ shown' = [amount |-> form.amount, usd |-> u, fee |-> f, tier |-> t, selected |-> form.selected,
                    max |-> form.max, basis |-> form.basis, netted |-> form.netted]
  <2>1. usd # Unknown => \E rate \in FiatRates : form.amount = usd \div rate
    BY <1>6
  <2>2. QED
    BY <1>4, <1>5, <1>8, <1>9, <1>10, <1>11, <1>12, <1>13, <2>1
<1> HIDE DEF tier, usd, fee
<1>15. /\ shown'.amount = form.amount /\ shown'.usd = u /\ shown'.fee = f /\ shown'.tier = t
       /\ shown'.selected = form.selected /\ shown'.max = form.max /\ shown'.basis = form.basis
       /\ shown'.netted = form.netted
  BY <1>14
<1>16. /\ page' = "preview" /\ fiat' = 0 /\ options' = <<>> /\ form' = NoForm
       /\ known' = [asset |-> Unknown, gas |-> Unknown]
       /\ UNCHANGED <<currency, world, wallet, requests, screen, attempts, sent, moves>>
  BY DEF OpenPreview
<1>17. shown' \in Previews
  BY <1>2, <1>14 DEF Previews
<1>18. NoForm \in Forms /\ known' \in [asset : Int, gas : Int]
  BY <1>16 DEF NoForm, Forms, Bases, Unknown
<1>19. Typed'
  BY <1>16, <1>17, <1>18 DEF IInv, Typed, WorldTyped, WalletTyped, PopupTyped, AttemptsTyped
<1>20. FormsOK'
  BY <1>1, <1>16 DEF FormsOK, OptionsOK, FormOK, RequestsOK, NoForm
<1>21. Usable(shown.tier)'
  BY <1>14, <1>15, <1>16 DEF Usable, Gas
<1>22. shown'.max => MaxFits(shown.amount, shown.fee, shown.basis, shown.tier)'
  <2>1. PICK n, b : n = form.amount /\ b = form.basis
    OBVIOUS
  <2>2. form.max => MaxFits(n, f, b, t)
    BY <1>14, <2>1
  <2>3. form.max => MaxFits(n, f, b, t)'
    BY <1>16, <2>2, FitsStay
  <2>4. QED
    BY <1>15, <2>1, <2>3
<1>23. sent = {} /\ ~screen.confirming /\ \A i \in 1..MaxAttempts : attempts[i].pc = "none" /\ attempts[i].error = ""
  BY <1>1 DEF IInv, PaidOK, ShownOK, AttemptOK
<1>24. ShownOK'
  BY <1>1, <1>14, <1>15, <1>16, <1>21, <1>22 DEF ShownOK, Gas
<1>25. StatusOK'
  BY <1>16, <1>23 DEF StatusOK
<1>26. (\A i \in 1..MaxAttempts : AttemptOK(i, attempts[i], sent))'
  BY <1>16, <1>23 DEF AttemptOK
<1>27. PaidOK'
  BY <1>16, <1>23, <1>24, <1>25, <1>26 DEF PaidOK
<1>28. QED
  BY <1>19, <1>20, <1>27 DEF IInv

-----------------------------------------------------------------------------
(* The chain and the wallet behind the payment.                            *)

\* A step of the chain or of the wallet alone.
LEMMA OnlyTheWorld ==
  ASSUME IInv, UNCHANGED <<currency, page, known, fiat, options, form, requests, shown, screen, attempts, sent>>,
         WorldTyped', WalletTyped', moves' \in 0..MaxMoves
  PROVE  IInv'
<1>1. PopupTyped' /\ AttemptsTyped'
  BY DEF IInv, Typed, PopupTyped, AttemptsTyped
<1>2. FormsOK' /\ PaidOK'
  BY FormsStay, PaidStays DEF IInv
<1>3. QED
  BY <1>1, <1>2 DEF IInv, Typed

LEMMA NewBlockKeeps ==
  ASSUME IInv, NEW cs \in SUBSET {c \in world.coins : c.height = 0}, NewBlock(cs)
  PROVE  IInv'
<1> DEFINE mined(c) == IF c \in cs THEN [c EXCEPT !.height = world.tip + 1] ELSE c
           coins == {mined(c) : c \in world.coins}
<1>1. world' = [world EXCEPT !.tip = world.tip + 1, !.coins = coins]
  BY DEF NewBlock
<1>2. world \in [coins : SUBSET CoinRecords, tip : Nat, ether : [Accounts -> EtherRecords]] /\ IsFiniteSet(world.coins)
  BY DEF IInv, Typed, WorldTyped
<1>3. coins \in SUBSET CoinRecords
  <2>1. ASSUME NEW c \in world.coins
        PROVE  mined(c) \in CoinRecords
    <3>1. c \in CoinRecords /\ world.tip + 1 \in Nat
      BY <1>2
    <3>2. QED
      BY <3>1 DEF CoinRecords
  <2> HIDE DEF mined
  <2>2. QED
    BY <2>1
<1>4. IsFiniteSet(coins)
  <2> DEFINE f == [c \in world.coins |-> mined(c)]
  <2> HIDE DEF mined
  <2>1. f \in Surjection(world.coins, coins)
    BY DEF Surjection
  <2> HIDE DEF f, coins
  <2>2. QED
    BY <1>2, <2>1, FS_Surjection
<1>5. world.tip + 1 \in Nat
  BY <1>2
<1> HIDE DEF coins
<1>6. WorldTyped'
  BY <1>1, <1>2, <1>3, <1>4, <1>5 DEF WorldTyped, IInv, Typed, NewBlock
<1>7. QED
  BY <1>6, OnlyTheWorld, MovesStay DEF NewBlock, popup, IInv, Typed, WalletTyped

LEMMA DepositArrivesKeeps ==
  ASSUME IInv, DepositArrives
  PROVE  IInv'
<1>1. world' = [world EXCEPT !.coins = world.coins \cup {Deposit}]
  BY DEF DepositArrives
<1>2. world.coins \cup {Deposit} \in SUBSET CoinRecords /\ IsFiniteSet(world.coins \cup {Deposit})
  BY PaymentAssumption, FS_AddElement DEF IInv, Typed, WorldTyped
<1>3. WorldTyped'
  BY <1>1, <1>2 DEF WorldTyped, IInv, Typed, DepositArrives
<1>4. QED
  BY <1>3, OnlyTheWorld, MovesStay DEF DepositArrives, popup, IInv, Typed, WalletTyped

LEMMA EtherMovesKeeps ==
  ASSUME IInv, NEW a \in Accounts, EtherMoves(a)
  PROVE  IInv'
<1>1. world.ether \in [Accounts -> EtherRecords] /\ world.ether[a] \in EtherRecords
  BY DEF IInv, Typed, WorldTyped
<1>2. PICK e \in EtherRecords : world' = [world EXCEPT !.ether = [world.ether EXCEPT ![a] = e]]
  <2>1. CASE world' = [world EXCEPT !.ether[a].wei = @ + 7]
    <3>1. [world.ether[a] EXCEPT !.wei = world.ether[a].wei + 7] \in EtherRecords
      BY <1>1 DEF EtherRecords
    <3>2. QED
      BY <2>1, <3>1
  <2>2. CASE world' = [world EXCEPT !.ether[a].wei = @ \div 2, !.ether[a].count = @ + 1]
    <3>1. world.ether[a].wei \div 2 \in Nat /\ world.ether[a].count + 1 \in Nat
      BY <1>1 DEF EtherRecords
    <3>2. [world.ether[a] EXCEPT !.wei = world.ether[a].wei \div 2, !.count = world.ether[a].count + 1] \in EtherRecords
      BY <1>1, <3>1 DEF EtherRecords
    <3>3. world' = [world EXCEPT !.ether = [world.ether EXCEPT ![a] =
             [world.ether[a] EXCEPT !.wei = world.ether[a].wei \div 2, !.count = world.ether[a].count + 1]]]
      BY <1>1, <2>2 DEF IInv, Typed, WorldTyped
    <3>4. QED
      BY <3>2, <3>3
  <2>3. QED
    BY <2>1, <2>2 DEF EtherMoves
<1>3. WorldTyped'
  BY <1>1, <1>2 DEF WorldTyped, IInv, Typed, EtherMoves
<1>4. QED
  BY <1>3, OnlyTheWorld, MovesStay DEF EtherMoves, popup, IInv, Typed, WalletTyped

LEMMA ScannedOK ==
  ASSUME IInv, NEW a \in Accounts, wallet' = Scanned(a)
  PROVE  WalletTyped'
<1> DEFINE found == {c \in world.coins : c.owner = a}
<1>1. found \in SUBSET CoinRecords /\ IsFiniteSet(found)
  BY FS_Subset DEF IInv, Typed, WorldTyped
<1>2. wallet' = [wallet EXCEPT !.cache = [wallet.cache EXCEPT ![a] = found]]
  BY DEF Scanned, IInv, Typed, WalletTyped
<1> HIDE DEF found
<1>3. QED
  BY <1>1, <1>2 DEF WalletTyped, IInv, Typed

LEMMA ScanKeeps ==
  ASSUME IInv, NEW a \in Accounts, Scan(a)
  PROVE  IInv'
<1>1. WalletTyped'
  BY ScannedOK DEF Scan
<1>2. QED
  BY <1>1, OnlyTheWorld, MovesStay DEF Scan, popup, IInv, Typed, WorldTyped

LEMMA SwitchAccountKeeps ==
  ASSUME IInv, NEW a \in Accounts, SwitchAccount(a)
  PROVE  IInv'
<1>1. WalletTyped'
  BY DEF SwitchAccount, IInv, Typed, WalletTyped
<1>2. QED
  BY <1>1, OnlyTheWorld, MovesStay DEF SwitchAccount, popup, IInv, Typed, WorldTyped

LEMMA LockKeeps ==
  ASSUME IInv, Lock
  PROVE  IInv'
<1>1. WalletTyped'
  BY DEF Lock, IInv, Typed, WalletTyped
<1>2. QED
  BY <1>1, OnlyTheWorld, MovesStay DEF Lock, popup, IInv, Typed, WorldTyped

-----------------------------------------------------------------------------
(* The attempts to pay.                                                    *)

Paying == page \in {"preview", "status"}

\* One attempt becomes x, and the network has taken what is in ts.
LEMMA AttemptMoves ==
  ASSUME IInv, Paying, page' \in {"preview", "status"},
         UNCHANGED <<currency, known, fiat, options, form, requests, shown>>,
         WorldTyped', WalletTyped', moves' \in 0..MaxMoves,
         screen' \in [confirming : BOOLEAN, error : Texts],
         NEW i \in 1..MaxAttempts, NEW x \in AttemptRecords, IsFiniteSet(x.inputs),
         attempts' = [attempts EXCEPT ![i] = x],
         NEW ts, sent' = ts, sent \subseteq ts,
         AttemptOK(i, x, ts),
         \A t \in sent : t.attempt = i => SentOK(t, x),
         \A t \in ts \ sent : t.attempt = i /\ SentOK(t, x),
         page' = "status" => ts # {},
         screen'.confirming => x.pc \notin {"none", "done", "failed"}
  PROVE  IInv'
<1>1. /\ attempts \in [1..MaxAttempts -> AttemptRecords] /\ attempts' \in [1..MaxAttempts -> AttemptRecords]
      /\ attempts'[i] = x /\ \A j \in 1..MaxAttempts : j # i => attempts'[j] = attempts[j]
  BY DEF IInv, Typed, AttemptsTyped
<1>2. AttemptsTyped'
  BY <1>1 DEF IInv, Typed, AttemptsTyped
<1>3. PopupTyped'
  BY DEF IInv, Typed, PopupTyped, Paying
<1>4. FormsOK'
  BY FormsStay DEF IInv, Paying
<1>5. ShownOK'
  BY FitsStay DEF IInv, PaidOK, ShownOK, Usable, Gas, Paying
<1>6. StatusOK'
  BY <1>1 DEF StatusOK, Running
<1>7. (\A j \in 1..MaxAttempts : AttemptOK(j, attempts[j], sent))'
  <2>1. SUFFICES ASSUME NEW j \in 1..MaxAttempts PROVE AttemptOK(j, attempts[j], sent)'
    OBVIOUS
  <2>2. CASE j = i
    BY <1>1, <2>2 DEF AttemptOK, FeeOK
  <2>3. CASE j # i
    <3>1. attempts'[j] = attempts[j] /\ AttemptOK(j, attempts[j], sent)
      BY <1>1, <2>3 DEF IInv, PaidOK
    <3>2. QED
      BY <3>1 DEF AttemptOK, FeeOK
  <2>4. QED
    BY <2>2, <2>3
<1>8. (\A t \in sent : SentOK(t, attempts[t.attempt]))'
  <2>1. SUFFICES ASSUME NEW t \in sent' PROVE SentOK(t, attempts[t.attempt])'
    OBVIOUS
  <2>2. SentOK(t, attempts'[t.attempt])
    <3>1. CASE t \in sent /\ t.attempt # i
      <4>1. SentOK(t, attempts[t.attempt]) /\ t.attempt \in 1..MaxAttempts
        BY <3>1 DEF IInv, PaidOK, SentOK
      <4>2. attempts'[t.attempt] = attempts[t.attempt]
        BY <1>1, <3>1, <4>1
      <4>3. QED
        BY <4>1, <4>2
    <3>2. CASE t \notin sent \/ t.attempt = i
      <4>1. SentOK(t, x) /\ t.attempt = i
        BY <3>2
      <4>2. QED
        BY <1>1, <4>1
    <3>3. QED
      BY <3>1, <3>2
  <2>3. QED
    BY <2>2 DEF SentOK, FeeOK
<1>9. PaidOK'
  BY <1>5, <1>6, <1>7, <1>8 DEF PaidOK
<1>10. QED
  BY <1>2, <1>3, <1>4, <1>9 DEF IInv, Typed

LEMMA MessagesOK ==
  ASSUME NEW error \in Errors \ {""}
  PROVE  Message(error) \in SUBSET (Texts \ {""})
BY DEF Message, Errors, Texts

\* A confirmation fails, with the record r.
LEMMA Failing ==
  ASSUME IInv, Paying,
         UNCHANGED <<currency, page, known, fiat, options, form, requests, shown, sent>>,
         WorldTyped', WalletTyped', moves' \in 0..MaxMoves,
         NEW i \in 1..MaxAttempts, NEW r \in AttemptRecords, IsFiniteSet(r.inputs),
         NEW records, records = [attempts EXCEPT ![i] = r],
         NEW error \in Errors \ {""}, FailFrom(records, i, error),
         error \in {"funds", "max changed"} /\ shown.max /\ currency # "usdt" => r.basis # shown.basis,
         error \notin {"timeout", "unexpected", "lost"} => attempts[i].pc \notin {"taken", "record", "done", "failed"}
  PROVE  IInv'
<1>1. PICK text \in Message(error) :
        /\ attempts' = [records EXCEPT ![i].pc = "failed", ![i].error = error, ![i].seen = text]
        /\ screen' = [confirming |-> FALSE, error |-> text]
  BY DEF FailFrom
<1>2. text \in Texts /\ error \in Errors /\ error # ""
  BY MessagesOK
<1> DEFINE x == [r EXCEPT !.pc = "failed", !.error = error, !.seen = text]
<1>3. attempts \in [1..MaxAttempts -> AttemptRecords]
  BY DEF IInv, Typed, AttemptsTyped
<1>4. attempts' = [attempts EXCEPT ![i] = x]
  BY <1>1, <1>3
<1>5. x \in AttemptRecords /\ x.pc = "failed" /\ x.error = error /\ x.seen = text /\ x.basis = r.basis /\ x.inputs = r.inputs
  BY <1>2 DEF AttemptRecords
<1> HIDE DEF x
<1>6. AttemptOK(i, x, sent)
  BY <1>1, <1>2, <1>5 DEF AttemptOK
<1>7. ASSUME NEW t \in sent, t.attempt = i
      PROVE  SentOK(t, x)
  <2>1. SentOK(t, attempts[i])
    BY <1>7 DEF IInv, PaidOK
  <2>2. attempts[i].pc \in {"taken", "record", "done", "failed"}
    BY <2>1 DEF SentOK
  <2>3. error \in {"timeout", "unexpected", "lost"}
    BY <2>2
  <2>4. QED
    BY <1>5, <2>1, <2>3 DEF SentOK
<1>8. page' \in {"preview", "status"} /\ (page' = "status" => sent # {})
  BY DEF IInv, PaidOK, StatusOK, Paying
<1>9. screen' \in [confirming : BOOLEAN, error : Texts] /\ ~screen'.confirming
  BY <1>1, <1>2
<1>10. QED
  BY <1>4, <1>5, <1>6, <1>7, <1>8, <1>9, AttemptMoves

LEMMA Unsent ==
  ASSUME IInv, NEW i \in 1..MaxAttempts, attempts[i].pc \notin {"taken", "record", "done", "failed"}
  PROVE  \A t \in sent : t.attempt # i
BY DEF IInv, PaidOK, SentOK

LEMMA WorldStays ==
  ASSUME WorldTyped, UNCHANGED <<currency, world>>
  PROVE  WorldTyped'
BY DEF WorldTyped

LEMMA WalletStays ==
  ASSUME WalletTyped, UNCHANGED wallet
  PROVE  WalletTyped'
BY DEF WalletTyped

\* The attempt goes on as x, with nothing sent for it.
LEMMA GoesOn ==
  ASSUME IInv, Paying, UNCHANGED <<currency, page, known, fiat, options, form, requests, shown, sent>>,
         WorldTyped', WalletTyped', moves' \in 0..MaxMoves,
         screen' \in [confirming : BOOLEAN, error : Texts],
         NEW i \in 1..MaxAttempts, NEW x \in AttemptRecords, IsFiniteSet(x.inputs),
         attempts' = [attempts EXCEPT ![i] = x],
         attempts[i].pc \notin {"taken", "record", "done", "failed"},
         x.pc \notin {"none", "done", "failed"}, AttemptOK(i, x, sent)
  PROVE  IInv'
<1>1. page' \in {"preview", "status"} /\ (page' = "status" => sent # {})
  BY DEF IInv, PaidOK, StatusOK, Paying
<1>2. QED
  BY <1>1, Unsent, AttemptMoves

LEMMA Stepped ==
  ASSUME IInv, NEW i \in 1..MaxAttempts,
         NEW pc \in {"verify", "build", "sign", "broadcast", "taken", "refused", "record", "done"}, Step(i, pc)
  PROVE  \E x \in AttemptRecords :
           /\ attempts' = [attempts EXCEPT ![i] = x] /\ IsFiniteSet(x.inputs)
           /\ x.pc = pc /\ x.from = attempts[i].from /\ x.payer = attempts[i].payer /\ x.inputs = attempts[i].inputs
           /\ x.change = attempts[i].change /\ x.basis = attempts[i].basis /\ x.nonce = attempts[i].nonce
           /\ x.error = attempts[i].error /\ x.seen = attempts[i].seen
<1> DEFINE x == [attempts[i] EXCEPT !.pc = pc]
<1>1. attempts \in [1..MaxAttempts -> AttemptRecords] /\ attempts[i] \in AttemptRecords /\ IsFiniteSet(attempts[i].inputs)
  BY DEF IInv, Typed, AttemptsTyped
<1>2. x \in AttemptRecords
  BY <1>1 DEF AttemptRecords
<1>3. /\ x.pc = pc /\ x.from = attempts[i].from /\ x.payer = attempts[i].payer /\ x.inputs = attempts[i].inputs
      /\ x.change = attempts[i].change /\ x.basis = attempts[i].basis /\ x.nonce = attempts[i].nonce
      /\ x.error = attempts[i].error /\ x.seen = attempts[i].seen
  BY <1>1 DEF AttemptRecords
<1>4. attempts' = [attempts EXCEPT ![i] = x]
  BY <1>1 DEF Step
<1> HIDE DEF x
<1>5. IsFiniteSet(x.inputs)
  BY <1>1, <1>3, Zenon
<1>6. QED
  BY <1>2, <1>3, <1>4, <1>5

LEMMA ScreenTyped ==
  ASSUME IInv, UNCHANGED screen
  PROVE  screen' \in [confirming : BOOLEAN, error : Texts]
BY DEF IInv, Typed, PopupTyped

LEMMA ConfirmKeeps ==
  ASSUME IInv, NEW i \in 1..MaxAttempts, Confirm(i)
  PROVE  IInv'
<1>1. Paying /\ attempts[i].pc = "none" /\ AttemptOK(i, attempts[i], sent)
  BY DEF Confirm, Paying, IInv, PaidOK
<1>2. Step(i, "verify")
  BY DEF Confirm
<1>3. PICK x \in AttemptRecords :
        /\ attempts' = [attempts EXCEPT ![i] = x] /\ IsFiniteSet(x.inputs)
        /\ x.pc = "verify" /\ x.error = attempts[i].error
  BY <1>2, Stepped
<1>4. AttemptOK(i, x, sent)
  BY <1>1, <1>3 DEF AttemptOK
<1>5. screen' \in [confirming : BOOLEAN, error : Texts]
  BY DEF Confirm, Texts
<1>6. QED
  BY <1>1, <1>3, <1>4, <1>5, GoesOn, WorldStays, WalletStays, MovesStay DEF Confirm, IInv, Typed

LEMMA AtWork ==
  ASSUME IInv, NEW i \in 1..MaxAttempts, attempts[i].pc # "none"
  PROVE  /\ Paying /\ attempts[i] \in AttemptRecords /\ IsFiniteSet(attempts[i].inputs) /\ AttemptOK(i, attempts[i], sent)
         /\ attempts = [attempts EXCEPT ![i] = attempts[i]]
BY DEF IInv, PaidOK, ShownOK, Paying, Typed, AttemptsTyped

\* The errors that do not speak of the amount.
LEMMA PlainFailure ==
  ASSUME IInv, UNCHANGED <<currency, page, known, fiat, options, form, requests, shown, sent>>,
         WorldTyped', WalletTyped', moves' \in 0..MaxMoves,
         NEW i \in 1..MaxAttempts, attempts[i].pc # "none",
         NEW error \in Errors \ {"", "funds", "max changed"}, Fail(i, error),
         error \notin {"timeout", "unexpected", "lost"} => attempts[i].pc \notin {"taken", "record", "done", "failed"}
  PROVE  IInv'
<1>1. FailFrom(attempts, i, error)
  BY DEF Fail
<1>2. QED
  BY <1>1, AtWork, Failing

LEMMA VerifiedKeeps ==
  ASSUME IInv, NEW i \in 1..MaxAttempts, Verified(i)
  PROVE  IInv'
<1>1. attempts[i].pc = "verify"
  BY DEF Verified
<1>2. Paying /\ attempts[i] \in AttemptRecords /\ IsFiniteSet(attempts[i].inputs) /\ AttemptOK(i, attempts[i], sent)
  BY <1>1, AtWork
<1>3. WorldTyped' /\ WalletTyped' /\ moves' \in 0..MaxMoves
  BY WorldStays, WalletStays, MovesStay DEF Verified, IInv, Typed
<1>4. UNCHANGED <<currency, page, known, fiat, options, form, requests, shown, sent>>
  BY DEF Verified
<1>5. ASSUME NEW error \in {"password", "locked"}, Fail(i, error)
      PROVE  IInv'
  <2>1. error \in Errors \ {"", "funds", "max changed"}
    BY DEF Errors
  <2>2. QED
    BY <1>1, <1>3, <1>4, <1>5, <2>1, PlainFailure
<1>6. ~(currency # "btc" /\ ~Overridable(shown.tier))
  BY <1>2 DEF IInv, PaidOK, ShownOK, Paying, Usable
<1>7. CASE attempts' = [attempts EXCEPT ![i].pc = "build", ![i].from = Active] /\ UNCHANGED screen
  <2> DEFINE x == [attempts[i] EXCEPT !.pc = "build", !.from = Active]
  <2>1. Active \in Accounts
    BY DEF IInv, Typed, WalletTyped, Active
  <2>2. x \in AttemptRecords /\ x.pc = "build" /\ x.error = attempts[i].error /\ x.inputs = attempts[i].inputs
    BY <1>2, <2>1 DEF AttemptRecords
  <2>3. attempts' = [attempts EXCEPT ![i] = x]
    BY <1>7 DEF IInv, Typed, AttemptsTyped
  <2> HIDE DEF x
  <2>4. AttemptOK(i, x, sent)
    BY <1>1, <1>2, <2>2 DEF AttemptOK
  <2>5. IsFiniteSet(x.inputs)
    BY <1>2, <2>2, Zenon
  <2>6. screen' \in [confirming : BOOLEAN, error : Texts]
    BY <1>7, ScreenTyped
  <2>7. QED
    BY <1>1, <1>2, <1>3, <1>4, <2>2, <2>3, <2>4, <2>5, <2>6, GoesOn
<1>8. QED
  BY <1>5, <1>6, <1>7 DEF Verified

LEMMA BuildKeeps ==
  ASSUME IInv, NEW i \in 1..MaxAttempts, Build(i)
  PROVE  IInv'
<1>1. attempts[i].pc = "build" /\ currency = "btc"
  BY DEF Build
<1>2. Paying /\ attempts[i] \in AttemptRecords /\ IsFiniteSet(attempts[i].inputs) /\ AttemptOK(i, attempts[i], sent)
  BY <1>1, AtWork
<1>3. WorldTyped' /\ WalletTyped' /\ moves' \in 0..MaxMoves
  BY WorldStays, WalletStays, MovesStay DEF Build, IInv, Typed
<1>4. UNCHANGED <<currency, page, known, fiat, options, form, requests, shown, sent>>
  BY DEF Build
<1>5. PICK from : from = attempts[i].from
  OBVIOUS
<1>6. from \in Accounts /\ Active \in Accounts
  BY <1>2, <1>5 DEF AttemptRecords, IInv, Typed, WalletTyped, Active
<1> DEFINE built(cs, plan) == [attempts EXCEPT ![i].basis = <<from, Active, Sweepable(cs)>>, ![i].payer = Active,
                                              ![i].pc = "sign", ![i].inputs = plan.inputs, ![i].change = plan.change]
<1>7. PICK cs \in Views(wallet.cache[from]) :
        /\ Plan(cs, Active).error # "" => FailFrom(built(cs, Plan(cs, Active)), i, Plan(cs, Active).error)
        /\ Plan(cs, Active).error = "" => attempts' = built(cs, Plan(cs, Active)) /\ UNCHANGED screen
  BY <1>5, Zenon DEF Build
<1>8. PICK plan : plan = Plan(cs, Active)
  OBVIOUS
<1>9. cs \in SUBSET CoinRecords /\ IsFiniteSet(cs)
  <2>1. wallet.cache[from] \in SUBSET CoinRecords /\ IsFiniteSet(wallet.cache[from])
    BY <1>6 DEF IInv, Typed, WalletTyped
  <2>2. QED
    BY <2>1, ViewsOf
<1>10. /\ plan.error \in {"", "funds", "max changed"} /\ plan.inputs \in SUBSET cs /\ plan.change \in Nat
       /\ plan.error = "" =>
            plan.inputs # {} /\ FeeOK(Sum(plan.inputs) - shown.amount - plan.change, plan.change, plan.inputs, Active)
       /\ plan.error # "" /\ shown.max => \A b \in Accounts : shown.basis # <<b, Active, Sweepable(cs)>>
  <2>1. PopupTyped /\ ShownOK /\ page \in {"preview", "status"}
    BY <1>2 DEF IInv, Typed, PaidOK, Paying
  <2>2. QED
    BY <1>1, <1>6, <1>8, <1>9, <2>1, PlanOK, Zenon
<1>11. PICK basis : basis = <<from, Active, Sweepable(cs)>>
  OBVIOUS
<1>12. basis \in Bases
  <2>1. Sweepable(cs) \in SUBSET CoinRecords
    BY <1>9 DEF Sweepable
  <2>2. QED
    BY <1>6, <1>11, <2>1 DEF Bases
<1>13. plan.inputs \in SUBSET CoinRecords /\ IsFiniteSet(plan.inputs)
  BY <1>9, <1>10, FS_Subset
<1> DEFINE r == [attempts[i] EXCEPT !.basis = basis, !.payer = Active, !.pc = "sign",
                                    !.inputs = plan.inputs, !.change = plan.change]
           records == [attempts EXCEPT ![i] = r]
<1>14. /\ r \in AttemptRecords /\ r.basis = basis /\ r.payer = Active /\ r.pc = "sign" /\ r.inputs = plan.inputs
       /\ r.change = plan.change /\ r.error = attempts[i].error
  BY <1>2, <1>6, <1>10, <1>12, <1>13 DEF AttemptRecords
<1>15. IsFiniteSet(r.inputs)
  BY <1>13, <1>14, Zenon
<1>16. records = built(cs, plan)
  BY <1>11 DEF IInv, Typed, AttemptsTyped
<1> HIDE DEF r, built
<1>17. CASE plan.error # ""
  <2>1. plan.error \in Errors \ {""}
    BY <1>10, <1>17 DEF Errors
  <2>2. FailFrom(records, i, plan.error)
    BY <1>7, <1>8, <1>16, <1>17, Zenon
  <2>3. shown.max => r.basis # shown.basis
    BY <1>6, <1>10, <1>11, <1>14, <1>17
  <2> HIDE DEF records
  <2>4. records = [attempts EXCEPT ![i] = r]
    BY DEF records
  <2>5. QED
    BY <1>1, <1>2, <1>3, <1>4, <1>14, <1>15, <2>1, <2>2, <2>3, <2>4, Failing
<1>18. CASE plan.error = ""
  <2>1. attempts' = [attempts EXCEPT ![i] = r] /\ UNCHANGED screen
    BY <1>7, <1>8, <1>16, <1>18, Zenon
  <2>2. r.inputs # {} /\ FeeOK(Sum(r.inputs) - shown.amount - r.change, r.change, r.inputs, r.payer)
    BY <1>10, <1>14, <1>18, Zenon
  <2>3. AttemptOK(i, r, sent)
    BY <1>1, <1>2, <1>14, <2>2 DEF AttemptOK
  <2>4. screen' \in [confirming : BOOLEAN, error : Texts]
    BY <2>1, ScreenTyped
  <2> HIDE DEF records
  <2>5. QED
    BY <1>1, <1>2, <1>3, <1>4, <1>14, <1>15, <2>1, <2>3, <2>4, GoesOn
<1>19. QED
  BY <1>17, <1>18

LEMMA SignKeeps ==
  ASSUME IInv, NEW i \in 1..MaxAttempts, Sign(i)
  PROVE  IInv'
<1>1. attempts[i].pc = "sign"
  BY DEF Sign
<1>2. Paying /\ AttemptOK(i, attempts[i], sent)
  BY <1>1, AtWork
<1>3. WorldTyped' /\ WalletTyped' /\ moves' \in 0..MaxMoves
  BY WorldStays, WalletStays, MovesStay DEF Sign, IInv, Typed
<1>4. UNCHANGED <<currency, page, known, fiat, options, form, requests, shown, sent>>
  BY DEF Sign
<1>5. CASE ~Signable(i)
  <2>1. Fail(i, "signing") /\ "signing" \in Errors \ {"", "funds", "max changed"}
    BY <1>5 DEF Sign, Errors
  <2>2. QED
    BY <1>1, <1>3, <1>4, <2>1, PlainFailure
<1>6. CASE Signable(i)
  <2>1. Step(i, "broadcast") /\ UNCHANGED screen
    BY <1>6 DEF Sign
  <2>2. PICK x \in AttemptRecords :
          /\ attempts' = [attempts EXCEPT ![i] = x] /\ IsFiniteSet(x.inputs)
          /\ x.pc = "broadcast" /\ x.payer = attempts[i].payer /\ x.inputs = attempts[i].inputs
          /\ x.change = attempts[i].change /\ x.error = attempts[i].error
    BY <2>1, Stepped
  <2>3. currency = "btc" =>
          x.inputs # {} /\ FeeOK(Sum(x.inputs) - shown.amount - x.change, x.change, x.inputs, x.payer)
    <3>1. currency = "btc" =>
            /\ attempts[i].inputs # {}
            /\ FeeOK(Sum(attempts[i].inputs) - shown.amount - attempts[i].change, attempts[i].change,
                     attempts[i].inputs, attempts[i].payer)
      BY <1>1, <1>2 DEF AttemptOK
    <3>2. QED
      BY <2>2, <3>1, Zenon
  <2>4. \A c \in x.inputs : c.owner = x.payer
    BY <1>6, <2>2 DEF Signable
  <2>5. AttemptOK(i, x, sent)
    BY <1>1, <1>2, <2>2, <2>3, <2>4 DEF AttemptOK
  <2>6. screen' \in [confirming : BOOLEAN, error : Texts]
    BY <2>1, ScreenTyped
  <2>7. QED
    BY <1>1, <1>2, <1>3, <1>4, <2>2, <2>5, <2>6, GoesOn
<1>7. QED
  BY <1>5, <1>6

LEMMA PopulateKeeps ==
  ASSUME IInv, NEW i \in 1..MaxAttempts, Populate(i)
  PROVE  IInv'
<1>1. attempts[i].pc = "build" /\ currency # "btc"
  BY DEF Populate
<1>2. Paying /\ attempts[i] \in AttemptRecords /\ IsFiniteSet(attempts[i].inputs) /\ AttemptOK(i, attempts[i], sent)
  BY <1>1, AtWork
<1>3. WorldTyped' /\ WalletTyped' /\ moves' \in 0..MaxMoves
  BY WorldStays, WalletStays, MovesStay DEF Populate, IInv, Typed
<1>4. UNCHANGED <<currency, page, known, fiat, options, form, requests, shown, sent>> /\ UNCHANGED screen
  BY DEF Populate, popup
<1> DEFINE count == world.ether[attempts[i].from].count
           x == [attempts[i] EXCEPT !.pc = "broadcast", !.nonce = count]
<1>5. count \in Nat
  <2>1. attempts[i].from \in Accounts
    BY <1>2 DEF AttemptRecords
  <2>2. QED
    BY <2>1 DEF IInv, Typed, WorldTyped, EtherRecords
<1>6. attempts' = [attempts EXCEPT ![i] = x]
  BY DEF Populate, IInv, Typed, AttemptsTyped
<1> HIDE DEF count
<1>7. x \in AttemptRecords /\ x.pc = "broadcast" /\ x.error = attempts[i].error /\ x.inputs = attempts[i].inputs
  BY <1>2, <1>5 DEF AttemptRecords
<1> HIDE DEF x
<1>8. AttemptOK(i, x, sent)
  BY <1>1, <1>2, <1>7 DEF AttemptOK
<1>9. IsFiniteSet(x.inputs)
  BY <1>2, <1>7, Zenon
<1>10. screen' \in [confirming : BOOLEAN, error : Texts]
  BY <1>4, ScreenTyped
<1>11. QED
  BY <1>1, <1>2, <1>3, <1>4, <1>6, <1>7, <1>8, <1>9, <1>10, GoesOn

LEMMA DeliverBitcoinKeeps ==
  ASSUME IInv, NEW i \in 1..MaxAttempts, DeliverBitcoin(i)
  PROVE  IInv'
<1>1. attempts[i].pc = "broadcast" /\ currency = "btc"
  BY DEF DeliverBitcoin
<1>2. Paying /\ attempts[i] \in AttemptRecords /\ IsFiniteSet(attempts[i].inputs) /\ AttemptOK(i, attempts[i], sent)
  BY <1>1, AtWork
<1>3. WalletTyped' /\ moves' \in 0..MaxMoves
  BY WalletStays, MovesStay DEF DeliverBitcoin, IInv, Typed
<1>4. UNCHANGED <<currency, page, known, fiat, options, form, requests, shown>> /\ UNCHANGED screen
  BY DEF DeliverBitcoin, popup
<1>5. screen' \in [confirming : BOOLEAN, error : Texts]
  BY <1>4, ScreenTyped
<1>6. CASE Step(i, "refused") /\ UNCHANGED <<world, sent>>
  <2>1. PICK x \in AttemptRecords :
          /\ attempts' = [attempts EXCEPT ![i] = x] /\ IsFiniteSet(x.inputs)
          /\ x.pc = "refused" /\ x.error = attempts[i].error
    BY <1>6, Stepped
  <2>2. AttemptOK(i, x, sent)
    BY <1>1, <1>2, <2>1 DEF AttemptOK
  <2>3. WorldTyped'
    BY <1>4, <1>6, WorldStays DEF IInv, Typed
  <2>4. QED
    BY <1>1, <1>2, <1>3, <1>4, <1>5, <1>6, <2>1, <2>2, <2>3, GoesOn
<1>7. CASE /\ sent' = sent \cup {Paid(i)}
           /\ world' = [world EXCEPT !.coins =
                {c \in @ : \A d \in attempts[i].inputs : c.id # d.id} \cup
                (IF attempts[i].change = 0 THEN {}
                 ELSE {[id |-> 100 + i, owner |-> attempts[i].payer, side |-> "internal", height |-> 0,
                        value |-> attempts[i].change]})]
           /\ Step(i, "taken")
  <2>1. PICK x \in AttemptRecords :
          /\ attempts' = [attempts EXCEPT ![i] = x] /\ IsFiniteSet(x.inputs)
          /\ x.pc = "taken" /\ x.error = attempts[i].error
    BY <1>7, Stepped
  <2> DEFINE t == Paid(i)
             left == {c \in world.coins : \A d \in attempts[i].inputs : c.id # d.id}
             change == [id |-> 100 + i, owner |-> attempts[i].payer, side |-> "internal", height |-> 0,
                        value |-> attempts[i].change]
             coins == left \cup (IF attempts[i].change = 0 THEN {} ELSE {change})
  <2>2. /\ t.attempt = i /\ t.amount = shown.amount /\ t.from = attempts[i].payer /\ t.inputs = attempts[i].inputs
        /\ t.change = attempts[i].change
        /\ t.fee = Sum(attempts[i].inputs) - shown.amount - attempts[i].change
    BY DEF Paid
  <2> HIDE DEF t
  <2>3. /\ attempts[i].inputs # {} /\ \A c \in attempts[i].inputs : c.owner = attempts[i].payer
        /\ FeeOK(Sum(attempts[i].inputs) - shown.amount - attempts[i].change, attempts[i].change,
                 attempts[i].inputs, attempts[i].payer)
    BY <1>1, <1>2 DEF AttemptOK
  <2>4. /\ t.inputs # {} /\ \A c \in t.inputs : c.owner = t.from
        /\ FeeOK(t.fee, t.change, t.inputs, t.from)
    BY <2>2, <2>3, Zenon
  <2>5. SentOK(t, x)
    BY <1>1, <2>1, <2>2, <2>4 DEF SentOK
  <2>6. AttemptOK(i, x, sent \cup {t})
    BY <1>1, <1>2, <2>1, <2>2 DEF AttemptOK
  <2>7. world' = [world EXCEPT !.coins = coins]
    BY <1>7
  <2>8. coins \in SUBSET CoinRecords
    <3>1. change \in CoinRecords
      <4>1. 100 + i \in Nat
        OBVIOUS
      <4>2. QED
        BY <1>2, <4>1 DEF CoinRecords, AttemptRecords
    <3> HIDE DEF change
    <3>2. QED
      BY <3>1 DEF IInv, Typed, WorldTyped
  <2>9. IsFiniteSet(coins)
    <3>1. IsFiniteSet(left)
      BY FS_Subset DEF IInv, Typed, WorldTyped
    <3> HIDE DEF left, change
    <3>2. IsFiniteSet(left \cup {change})
      BY <3>1, FS_AddElement
    <3>3. coins = left \/ coins = left \cup {change}
      OBVIOUS
    <3>4. QED
      BY <3>1, <3>2, <3>3
  <2> HIDE DEF coins
  <2>10. WorldTyped'
    BY <1>4, <2>7, <2>8, <2>9 DEF IInv, Typed, WorldTyped
  <2>11. \A u \in sent : u.attempt # i
    BY <1>1, Unsent
  <2>12. sent' = sent \cup {t}
    BY <1>7 DEF t
  <2>13. PICK ts : ts = sent \cup {t}
    OBVIOUS
  <2>14. /\ sent' = ts /\ sent \subseteq ts /\ ts # {} /\ AttemptOK(i, x, ts)
         /\ \A u \in sent : u.attempt = i => SentOK(u, x)
         /\ \A u \in ts \ sent : u.attempt = i /\ SentOK(u, x)
    BY <2>2, <2>5, <2>6, <2>11, <2>12, <2>13
  <2>15. page' \in {"preview", "status"}
    BY <1>2, <1>4 DEF Paying
  <2>16. QED
    BY <1>2, <1>3, <1>4, <1>5, <2>1, <2>10, <2>14, <2>15, AttemptMoves
<1>8. QED
  BY <1>6, <1>7 DEF DeliverBitcoin

\* The cap covers what the block takes; a maximum that the account does not cover was
\* calculated from another balance.
LEMMA CoverPays ==
  ASSUME IInv, Paying, currency # "btc", NEW ether \in EtherRecords, NEW a \in Accounts
  PROVE  /\ Covers(ether, shown.tier) =>
              /\ ether.wei - Gas * shown.tier.rate - (IF currency = "eth" THEN shown.amount ELSE 0) \in Nat
              /\ ether.tokens - (IF currency = "usdt" THEN shown.amount ELSE 0) \in Nat
         /\ ~Covers(ether, shown.tier) /\ shown.max /\ currency # "usdt" => shown.basis # <<a, ether>>
<1>1. /\ shown.amount \in Nat /\ shown.amount > 0 /\ shown.fee \in Nat /\ shown.tier \in Tiers
      /\ shown.tier.cap >= shown.tier.rate /\ shown.fee = shown.tier.cap * Gas
      /\ shown.max => MaxFits(shown.amount, shown.fee, shown.basis, shown.tier)
  BY DEF IInv, Typed, PopupTyped, PaidOK, ShownOK, Paying, Usable, Previews
<1>2. shown.tier.rate \in Nat /\ shown.tier.cap \in Nat /\ ether.wei \in Nat /\ ether.tokens \in Nat
  BY <1>1 DEF Tiers, EtherRecords
<1>3. PICK r \in Nat, c \in Nat : r = Gas * shown.tier.rate /\ c = Gas * shown.tier.cap /\ r <= c
  <2>1. shown.tier.rate * Gas \in Nat /\ shown.tier.cap * Gas \in Nat /\ shown.tier.rate * Gas <= shown.tier.cap * Gas
    BY <1>1, <1>2, PricesOrdered
  <2>2. Gas \in Nat
    BY GasType
  <2>3. Gas * shown.tier.rate = shown.tier.rate * Gas /\ Gas * shown.tier.cap = shown.tier.cap * Gas
    BY <1>2, <2>2
  <2>4. QED
    BY <2>1, <2>3
<1>4. shown.fee = c
  <2>1. Gas \in Nat
    BY GasType
  <2>2. QED
    BY <1>1, <1>2, <1>3, <2>1
<1>5. currency \in {"eth", "usdt"}
  BY PaymentAssumption DEF IInv, Typed, WorldTyped
<1>6. ASSUME Covers(ether, shown.tier)
      PROVE  /\ ether.wei - Gas * shown.tier.rate - (IF currency = "eth" THEN shown.amount ELSE 0) \in Nat
             /\ ether.tokens - (IF currency = "usdt" THEN shown.amount ELSE 0) \in Nat
  <2>1. CASE currency = "usdt"
    <3>1. ether.wei >= c /\ ether.tokens >= shown.amount
      BY <1>3, <1>6, <2>1 DEF Covers
    <3>2. QED
      BY <1>1, <1>2, <1>3, <2>1, <3>1
  <2>2. CASE currency = "eth"
    <3>1. ether.wei >= shown.amount + c
      BY <1>3, <1>6, <2>2 DEF Covers
    <3>2. QED
      BY <1>1, <1>2, <1>3, <2>2, <3>1
  <2>3. QED
    BY <1>5, <2>1, <2>2
<1>7. ASSUME ~Covers(ether, shown.tier), shown.max, currency # "usdt", shown.basis = <<a, ether>>
      PROVE  FALSE
  <2>1. currency = "eth"
    BY <1>5, <1>7
  <2>2. EtherFits(shown.amount, shown.fee, shown.basis, shown.tier)
    BY <1>1, <1>7, <2>1 DEF MaxFits
  <2>3. shown.basis[2] = ether
    BY <1>7
  <2>4. shown.amount = Max({ether.wei - shown.fee, 0})
    BY <2>2, <2>3, Zenon DEF EtherFits
  <2>5. shown.amount = Max({ether.wei - c, 0})
    BY <1>4, <2>4, Zenon
  <2>6. shown.amount = ether.wei - c
    BY <1>1, <1>2, <2>5, GreaterOfTwo
  <2>7. ~(ether.wei >= shown.amount + c)
    BY <1>3, <1>7, <2>1 DEF Covers
  <2>8. QED
    BY <1>1, <1>2, <2>6, <2>7
<1>8. QED
  BY <1>6, <1>7

LEMMA DeliverEthereumKeeps ==
  ASSUME IInv, NEW i \in 1..MaxAttempts, DeliverEthereum(i)
  PROVE  IInv'
<1>1. attempts[i].pc = "broadcast" /\ currency # "btc"
  BY DEF DeliverEthereum
<1>2. Paying /\ attempts[i] \in AttemptRecords /\ IsFiniteSet(attempts[i].inputs) /\ AttemptOK(i, attempts[i], sent)
  BY <1>1, AtWork
<1>3. WalletTyped' /\ moves' \in 0..MaxMoves
  BY WalletStays, MovesStay DEF DeliverEthereum, IInv, Typed
<1>4. UNCHANGED <<currency, page, known, fiat, options, form, requests, shown>> /\ UNCHANGED screen
  BY DEF DeliverEthereum, popup
<1>5. screen' \in [confirming : BOOLEAN, error : Texts]
  BY <1>4, ScreenTyped
<1> DEFINE a == attempts[i].from
           ether == world.ether[a]
<1>6. a \in Accounts /\ ether \in EtherRecords
  BY <1>2 DEF AttemptRecords, IInv, Typed, WorldTyped
<1>7. /\ Covers(ether, shown.tier) =>
           /\ ether.wei - Gas * shown.tier.rate - (IF currency = "eth" THEN shown.amount ELSE 0) \in Nat
           /\ ether.tokens - (IF currency = "usdt" THEN shown.amount ELSE 0) \in Nat
      /\ ~Covers(ether, shown.tier) /\ shown.max /\ currency # "usdt" => shown.basis # <<a, ether>>
  BY <1>1, <1>2, <1>6, CoverPays
<1>8. CASE attempts[i].nonce = ether.count /\ Covers(ether, shown.tier)
  <2> DEFINE t == [Paid(i) EXCEPT !.from = a, !.fee = Gas * shown.tier.cap]
             wei == ether.wei - Gas * shown.tier.rate - (IF currency = "eth" THEN shown.amount ELSE 0)
             tokens == ether.tokens - (IF currency = "usdt" THEN shown.amount ELSE 0)
  <2>1. /\ sent' = sent \cup {t} /\ Step(i, "taken")
        /\ world' = [world EXCEPT !.ether[a] = [wei |-> wei, tokens |-> tokens, count |-> ether.count + 1]]
    BY <1>8 DEF DeliverEthereum
  <2>2. PICK x \in AttemptRecords :
          /\ attempts' = [attempts EXCEPT ![i] = x] /\ IsFiniteSet(x.inputs)
          /\ x.pc = "taken" /\ x.error = attempts[i].error
    BY <2>1, Stepped
  <2>3. wei \in Nat /\ tokens \in Nat
    BY <1>7, <1>8
  <2>4. ether.count + 1 \in Nat
    BY <1>6 DEF EtherRecords
  <2>5. t.attempt = i /\ t.amount = shown.amount /\ t.fee = Gas * shown.tier.cap
    BY DEF Paid
  <2>6. t.fee <= shown.fee
    <3>1. shown.fee = shown.tier.cap * Gas /\ shown.tier.cap \in Nat
      BY <1>1, <1>2 DEF IInv, Typed, PopupTyped, PaidOK, ShownOK, Paying, Previews, Tiers
    <3>2. Gas \in Nat
      BY GasType
    <3>3. Gas * shown.tier.cap = shown.tier.cap * Gas /\ Gas * shown.tier.cap \in Nat
      BY <3>1, <3>2
    <3>4. QED
      BY <2>5, <3>1, <3>3
  <2> HIDE DEF wei, tokens, t
  <2>7. WorldTyped'
    BY <1>4, <1>6, <2>1, <2>3, <2>4 DEF IInv, Typed, WorldTyped, EtherRecords
  <2>8. SentOK(t, x)
    BY <1>1, <2>2, <2>5, <2>6 DEF SentOK
  <2>9. AttemptOK(i, x, sent \cup {t})
    BY <1>1, <1>2, <2>2, <2>5 DEF AttemptOK
  <2>10. \A u \in sent : u.attempt # i
    BY <1>1, Unsent
  <2>11. PICK ts : ts = sent \cup {t}
    OBVIOUS
  <2>12. /\ sent' = ts /\ sent \subseteq ts /\ ts # {} /\ AttemptOK(i, x, ts)
         /\ \A u \in sent : u.attempt = i => SentOK(u, x)
         /\ \A u \in ts \ sent : u.attempt = i /\ SentOK(u, x)
    BY <2>1, <2>5, <2>8, <2>9, <2>10, <2>11
  <2>13. page' \in {"preview", "status"}
    BY <1>2, <1>4 DEF Paying
  <2>14. QED
    BY <1>2, <1>3, <1>4, <1>5, <2>2, <2>7, <2>12, <2>13, AttemptMoves
<1>9. CASE ~(attempts[i].nonce = ether.count /\ Covers(ether, shown.tier))
  <2> DEFINE error == IF Covers(ether, shown.tier) THEN "rejected" ELSE "funds"
             x == [attempts[i] EXCEPT !.pc = "refused", !.basis = <<a, ether>>, !.error = error]
  <2>1. attempts' = [attempts EXCEPT ![i] = x] /\ UNCHANGED <<world, sent>>
    BY <1>9 DEF DeliverEthereum, IInv, Typed, AttemptsTyped
  <2>2. <<a, ether>> \in Bases /\ error \in Errors
    BY <1>6 DEF Bases, Errors
  <2>3. /\ x \in AttemptRecords /\ x.pc = "refused" /\ x.basis = <<a, ether>> /\ x.error = error
        /\ x.inputs = attempts[i].inputs
    <3> HIDE DEF a, ether, error
    <3>1. QED
      BY <1>2, <2>2 DEF AttemptRecords
  <2> HIDE DEF x
  <2>4. AttemptOK(i, x, sent)
    BY <1>1, <1>7, <2>3 DEF AttemptOK
  <2>5. IsFiniteSet(x.inputs)
    BY <1>2, <2>3, Zenon
  <2>6. WorldTyped'
    BY <1>4, <2>1, WorldStays DEF IInv, Typed
  <2>7. QED
    BY <1>1, <1>2, <1>3, <1>4, <1>5, <2>1, <2>3, <2>4, <2>5, <2>6, GoesOn
<1>10. QED
  BY <1>8, <1>9

\* The popup goes to SendStatus: the payment is in the network.
LEMMA SucceedKeeps ==
  ASSUME IInv, NEW i \in 1..MaxAttempts, attempts[i].pc \in {"taken", "record"}, Succeed(i),
         UNCHANGED <<currency, known, fiat, options, form, requests, shown, sent>>,
         WorldTyped', WalletTyped', moves' \in 0..MaxMoves
  PROVE  IInv'
<1>1. Paying /\ AttemptOK(i, attempts[i], sent)
  BY AtWork
<1>2. Step(i, "done") /\ page' = "status" /\ screen' = [screen EXCEPT !.confirming = FALSE]
  BY DEF Succeed
<1>3. PICK x \in AttemptRecords :
        /\ attempts' = [attempts EXCEPT ![i] = x] /\ IsFiniteSet(x.inputs)
        /\ x.pc = "done" /\ x.error = attempts[i].error
  BY <1>2, Stepped
<1>4. AttemptOK(i, x, sent) /\ sent # {}
  BY <1>1, <1>3 DEF AttemptOK
<1>5. screen' \in [confirming : BOOLEAN, error : Texts] /\ ~screen'.confirming
  BY <1>2 DEF IInv, Typed, PopupTyped
<1>6. ASSUME NEW t \in sent, t.attempt = i
      PROVE  SentOK(t, x)
  <2>1. SentOK(t, attempts[i])
    BY <1>6 DEF IInv, PaidOK
  <2>2. QED
    BY <1>3, <2>1 DEF SentOK
<1>7. page' \in {"preview", "status"}
  BY <1>2
<1>8. QED
  BY <1>1, <1>3, <1>4, <1>5, <1>6, <1>7, AttemptMoves

LEMMA AnsweredKeeps ==
  ASSUME IInv, NEW i \in 1..MaxAttempts, Answered(i)
  PROVE  IInv'
<1>1. attempts[i].pc \in {"taken", "refused"}
  BY DEF Answered
<1>2. Paying /\ attempts[i] \in AttemptRecords /\ IsFiniteSet(attempts[i].inputs) /\ AttemptOK(i, attempts[i], sent)
      /\ attempts = [attempts EXCEPT ![i] = attempts[i]]
  BY <1>1, AtWork
<1>3. WorldTyped' /\ WalletTyped' /\ moves' \in 0..MaxMoves
  BY WorldStays, WalletStays, MovesStay DEF Answered, IInv, Typed
<1>4. UNCHANGED <<currency, known, fiat, options, form, requests, shown, sent>>
  BY DEF Answered
<1>5. CASE attempts[i].pc = "refused"
  <2> DEFINE error == IF currency = "btc" THEN "rejected" ELSE attempts[i].error
  <2>1. Fail(i, error) /\ UNCHANGED page
    BY <1>5 DEF Answered
  <2>2. error \in {"rejected", "funds"}
    BY <1>2, <1>5 DEF AttemptOK
  <2>3. error \in Errors \ {""}
    BY <2>2 DEF Errors
  <2>4. error = "funds" /\ shown.max /\ currency # "usdt" => attempts[i].basis # shown.basis
    BY <1>2 DEF AttemptOK
  <2> HIDE DEF error
  <2>5. FailFrom(attempts, i, error)
    BY <2>1 DEF Fail
  <2>6. QED
    BY <1>2, <1>3, <1>4, <1>5, <2>1, <2>2, <2>3, <2>4, <2>5, Failing
<1>6. CASE attempts[i].pc = "taken" /\ currency = "btc"
  <2>1. Step(i, "record") /\ UNCHANGED <<page, screen>>
    BY <1>6 DEF Answered
  <2>2. PICK x \in AttemptRecords :
          /\ attempts' = [attempts EXCEPT ![i] = x] /\ IsFiniteSet(x.inputs)
          /\ x.pc = "record" /\ x.error = attempts[i].error
    BY <2>1, Stepped
  <2>3. AttemptOK(i, x, sent)
    BY <1>2, <1>6, <2>2 DEF AttemptOK
  <2>4. ASSUME NEW t \in sent, t.attempt = i
        PROVE  SentOK(t, x)
    <3>1. SentOK(t, attempts[i])
      BY <2>4 DEF IInv, PaidOK
    <3>2. QED
      BY <2>2, <3>1 DEF SentOK
  <2>5. page' \in {"preview", "status"} /\ (page' = "status" => sent # {})
    BY <1>2, <2>1 DEF Paying, IInv, PaidOK, StatusOK
  <2>6. screen' \in [confirming : BOOLEAN, error : Texts]
    BY <2>1, ScreenTyped
  <2>7. QED
    BY <1>2, <1>3, <1>4, <2>2, <2>3, <2>4, <2>5, <2>6, AttemptMoves
<1>7. CASE attempts[i].pc = "taken" /\ currency # "btc"
  <2>1. Succeed(i)
    BY <1>7 DEF Answered
  <2>2. QED
    BY <1>3, <1>4, <1>7, <2>1, SucceedKeeps
<1>8. QED
  BY <1>1, <1>5, <1>6, <1>7

LEMMA RecordedKeeps ==
  ASSUME IInv, NEW i \in 1..MaxAttempts, Recorded(i)
  PROVE  IInv'
<1>1. Active \in Accounts
  BY DEF IInv, Typed, WalletTyped, Active
<1>2. WalletTyped'
  BY <1>1, WalletStays, ScannedOK DEF Recorded, IInv, Typed
<1>3. WorldTyped' /\ moves' \in 0..MaxMoves
  BY WorldStays, MovesStay DEF Recorded, IInv, Typed
<1>4. QED
  BY <1>2, <1>3, SucceedKeeps DEF Recorded

LEMMA TimesOutKeeps ==
  ASSUME IInv, NEW i \in 1..MaxAttempts, TimesOut(i)
  PROVE  IInv'
<1>1. attempts[i].pc # "none" /\ Fail(i, "timeout") /\ "timeout" \in Errors \ {"", "funds", "max changed"}
  BY DEF TimesOut, Errors
<1>2. WorldTyped' /\ WalletTyped' /\ moves' \in 0..MaxMoves
  BY WorldStays, WalletStays, MovesStay DEF TimesOut, IInv, Typed
<1>3. QED
  BY <1>1, <1>2, PlainFailure DEF TimesOut

LEMMA AnsweredOddlyKeeps ==
  ASSUME IInv, NEW i \in 1..MaxAttempts, AnsweredOddly(i)
  PROVE  IInv'
<1>1. attempts[i].pc # "none" /\ Fail(i, "unexpected") /\ "unexpected" \in Errors \ {"", "funds", "max changed"}
  BY DEF AnsweredOddly, Errors
<1>2. WorldTyped' /\ WalletTyped' /\ moves' \in 0..MaxMoves
  BY WorldStays, WalletStays, MovesStay DEF AnsweredOddly, IInv, Typed
<1>3. QED
  BY <1>1, <1>2, PlainFailure DEF AnsweredOddly

LEMMA ConnectionLostKeeps ==
  ASSUME IInv, NEW i \in 1..MaxAttempts, ConnectionLost(i)
  PROVE  IInv'
<1>1. attempts[i].pc # "none" /\ Fail(i, "lost") /\ "lost" \in Errors \ {"", "funds", "max changed"}
  BY DEF ConnectionLost, Errors
<1>2. WorldTyped' /\ WalletTyped' /\ moves' \in 0..MaxMoves
  BY WorldStays, WalletStays, MovesStay DEF ConnectionLost, IInv, Typed
<1>3. QED
  BY <1>1, <1>2, PlainFailure DEF ConnectionLost

LEMMA WorkerDiesKeeps ==
  ASSUME IInv, WorkerDies
  PROVE  IInv'
<1> DEFINE lost(i) == [attempts[i] EXCEPT !.pc = "failed", !.error = "lost", !.seen = "went wrong"]
<1>1. attempts' = [i \in 1..MaxAttempts |-> IF Running(i) THEN lost(i) ELSE attempts[i]]
  BY DEF WorkerDies
<1>2. /\ screen' = [confirming |-> FALSE, error |-> "went wrong"] /\ moves' = moves - 1 /\ MayMove
      /\ UNCHANGED <<currency, world, wallet, page, known, fiat, options, form, requests, shown, sent>>
  BY DEF WorkerDies
<1>3. Paying
  <2>1. PICK i \in 1..MaxAttempts : attempts[i].pc # "none"
    BY DEF WorkerDies, Running
  <2>2. QED
    BY <2>1, AtWork
<1>4. ASSUME NEW i \in 1..MaxAttempts
      PROVE  attempts[i] \in AttemptRecords /\ IsFiniteSet(attempts[i].inputs) /\ AttemptOK(i, attempts[i], sent)
  BY DEF IInv, Typed, AttemptsTyped, PaidOK
<1>5. ASSUME NEW i \in 1..MaxAttempts
      PROVE  /\ lost(i) \in AttemptRecords /\ lost(i).inputs = attempts[i].inputs
             /\ lost(i).pc = "failed" /\ lost(i).error = "lost" /\ lost(i).seen = "went wrong"
  <2>1. "failed" \in {"none", "verify", "build", "sign", "broadcast", "taken", "refused", "record", "done", "failed"}
        /\ "lost" \in Errors /\ "went wrong" \in Texts
    BY DEF Errors, Texts
  <2>2. QED
    BY <1>4, <2>1 DEF AttemptRecords
<1> HIDE DEF lost
<1>6. ASSUME NEW i \in 1..MaxAttempts
      PROVE  \/ attempts'[i] = lost(i)
             \/ attempts'[i] = attempts[i] /\ ~Running(i)
  BY <1>1
<1>7. AttemptsTyped'
  <2>1. ASSUME NEW i \in 1..MaxAttempts
        PROVE  attempts'[i] \in AttemptRecords /\ IsFiniteSet(attempts'[i].inputs)
    <3>1. CASE attempts'[i] = lost(i)
      BY <1>4, <1>5, <3>1, Zenon
    <3>2. CASE attempts'[i] = attempts[i]
      BY <1>4, <3>2
    <3>3. QED
      BY <1>6, <3>1, <3>2
  <2>2. attempts' = [i \in 1..MaxAttempts |-> attempts'[i]]
    BY <1>1
  <2>3. QED
    BY <2>1, <2>2 DEF AttemptsTyped
<1>8. (\A i \in 1..MaxAttempts : AttemptOK(i, attempts[i], sent))'
  <2>1. SUFFICES ASSUME NEW i \in 1..MaxAttempts PROVE AttemptOK(i, attempts[i], sent)'
    OBVIOUS
  <2>2. CASE attempts'[i] = lost(i)
    BY <1>5, <2>2 DEF AttemptOK, Message
  <2>3. CASE attempts'[i] = attempts[i]
    <3>1. AttemptOK(i, attempts'[i], sent)
      BY <1>4, <2>3
    <3>2. QED
      BY <1>2, <3>1 DEF AttemptOK, FeeOK
  <2>4. QED
    BY <1>6, <2>2, <2>3
<1>9. (\A t \in sent : SentOK(t, attempts[t.attempt]))'
  <2>1. SUFFICES ASSUME NEW t \in sent PROVE SentOK(t, attempts[t.attempt])'
    BY <1>2
  <2>2. SentOK(t, attempts[t.attempt]) /\ t.attempt \in 1..MaxAttempts
    BY DEF IInv, PaidOK, SentOK
  <2>3. SentOK(t, attempts'[t.attempt])
    <3>1. CASE attempts'[t.attempt] = lost(t.attempt)
      BY <1>5, <2>2, <3>1 DEF SentOK
    <3>2. CASE attempts'[t.attempt] = attempts[t.attempt]
      BY <2>2, <3>2
    <3>3. QED
      BY <1>6, <2>2, <3>1, <3>2
  <2>4. QED
    BY <1>2, <2>3 DEF SentOK, FeeOK
<1>10. ShownOK' /\ StatusOK'
  BY <1>2, <1>3, FitsStay DEF IInv, PaidOK, ShownOK, StatusOK, Usable, Gas, Paying
<1>11. FormsOK'
  BY <1>2, FormsStay DEF IInv
<1>12. WorldTyped' /\ WalletTyped' /\ moves' \in 0..MaxMoves
  BY <1>2, WorldStays, WalletStays, MovesStay DEF IInv, Typed
<1>13. PopupTyped'
  BY <1>2 DEF IInv, Typed, PopupTyped, Texts
<1>14. PaidOK'
  BY <1>8, <1>9, <1>10 DEF PaidOK
<1>15. QED
  BY <1>7, <1>11, <1>12, <1>13, <1>14 DEF IInv, Typed

LEMMA Stutters ==
  ASSUME IInv, UNCHANGED vars
  PROVE  IInv'
<1>1. /\ UNCHANGED <<currency, world, wallet, page, known, fiat, options, form, requests, shown, screen, attempts, sent>>
      /\ UNCHANGED moves
  BY DEF vars, popup
<1>2. WorldTyped' /\ WalletTyped' /\ moves' \in 0..MaxMoves
  BY <1>1, WorldStays, WalletStays, MovesStay DEF IInv, Typed
<1>3. QED
  BY <1>1, <1>2, OnlyTheWorld

\* Every step keeps the invariant.
LEMMA NextKeeps ==
  ASSUME IInv, [Next]_vars
  PROVE  IInv'
<1>1. CASE ShowBalance
  BY <1>1, ShowBalanceKeeps
<1>2. CASE OpenOptions
  BY <1>2, OpenOptionsKeeps
<1>3. CASE FeesArrive
  BY <1>3, FeesArriveKeeps
<1>4. CASE FiatRateArrives
  BY <1>4, FiatRateArrivesKeeps
<1>5. ASSUME NEW n \in Amounts, TypeAmount(n) PROVE IInv'
  BY <1>5, TypeAmountKeeps
<1>6. ASSUME NEW n \in FiatAmounts, TypeFiat(n) PROVE IInv'
  BY <1>6, TypeFiatKeeps
<1>7. CASE PressMax
  BY <1>7, PressMaxKeeps
<1>8. ASSUME NEW k \in 1..3, SelectFee(k) PROVE IInv'
  BY <1>8, SelectFeeKeeps
<1>9. ASSUME NEW q \in requests, Calculated(q) PROVE IInv'
  BY <1>9, MaxArrivesKeeps, MaxFailsKeeps DEF Calculated
<1>10. CASE OpenPreview
  BY <1>10, OpenPreviewKeeps
<1>11. ASSUME NEW i \in 1..MaxAttempts, Confirm(i) \/ AttemptStep(i) \/ AnsweredOddly(i) \/ ConnectionLost(i) PROVE IInv'
  BY <1>11, ConfirmKeeps, VerifiedKeeps, BuildKeeps, SignKeeps, PopulateKeeps, DeliverBitcoinKeeps, DeliverEthereumKeeps,
     AnsweredKeeps, TimesOutKeeps, RecordedKeeps, AnsweredOddlyKeeps, ConnectionLostKeeps DEF AttemptStep
<1>12. CASE WorkerDies
  BY <1>12, WorkerDiesKeeps
<1>13. ASSUME NEW cs \in SUBSET {c \in world.coins : c.height = 0}, NewBlock(cs) PROVE IInv'
  BY <1>13, NewBlockKeeps
<1>14. CASE DepositArrives
  BY <1>14, DepositArrivesKeeps
<1>15. ASSUME NEW a \in Accounts, EtherMoves(a) \/ Scan(a) \/ SwitchAccount(a) PROVE IInv'
  BY <1>15, EtherMovesKeeps, ScanKeeps, SwitchAccountKeeps
<1>16. CASE Lock
  BY <1>16, LockKeeps
<1>17. CASE UNCHANGED vars
  BY <1>17, Stutters
<1>18. QED
  BY <1>1, <1>2, <1>3, <1>4, <1>5, <1>6, <1>7, <1>8, <1>9, <1>10, <1>11, <1>12, <1>13, <1>14, <1>15, <1>16, <1>17 DEF Next

-----------------------------------------------------------------------------
(* What follows for the payment.                                           *)

\* The chain of facts from the form to the transaction holds in every state.
THEOREM PaymentInvariant == Spec => []IInv
<1>1. Init => IInv
  BY InitOK
<1>2. IInv /\ [Next]_vars => IInv'
  BY NextKeeps
<1>3. QED
  BY <1>1, <1>2, PTL DEF Spec

LEMMA PaymentTyped ==
  ASSUME IInv
  PROVE  TypeOK
<1>1. Len(options) \in {0, 3}
  <2>1. CASE options = <<>>
    BY <2>1
  <2>2. CASE options \in [1..3 -> Tiers]
    <3>1. Len(options) = 3
      BY <2>2
    <3>2. QED
      BY <3>1
  <2>3. QED
    BY <2>1, <2>2 DEF IInv, Typed, PopupTyped
<1>2. /\ page \in {"send", "options", "preview", "status"}
      /\ known \in [asset : Int, gas : Int] /\ fiat \in Nat
      /\ form.selected \in 1..3 /\ form.ref \in Nat /\ form.edited \in {"asset", "usd"}
      /\ moves \in 0..MaxMoves
  BY PaymentAssumption DEF IInv, Typed, PopupTyped, Forms
<1>3. screen \in [confirming : BOOLEAN, error : {"", "password", "insufficient", "dust", "fee", "max changed", "went wrong"}]
  BY DEF IInv, Typed, PopupTyped, Texts
<1>4. \A q \in requests : q.id <= form.ref
  BY <1>2, OneRequest
<1>5. world.coins \subseteq CoinRecords /\ \A a \in Accounts : world.ether[a].wei >= 0 /\ world.ether[a].tokens >= 0
  BY DEF IInv, Typed, WorldTyped, EtherRecords
<1>6. QED
  BY <1>1, <1>2, <1>3, <1>4, <1>5 DEF TypeOK

LEMMA UsableFees ==
  ASSUME IInv
  PROVE  FeesAreUsable
<1>1. options # <<>> =>
        /\ currency # "btc" \/ options \in OfferedInOrder => Rising(options)
        /\ \A i \in 1..3 : currency # "btc" => Overridable(options[i]) /\ options[i].cap >= options[i].rate
  BY OfferedRises DEF IInv, FormsOK, OptionsOK, TiersOK, Usable
<1>2. \A i \in 1..MaxAttempts : attempts[i].error # "options"
  BY DEF IInv, Typed, AttemptsTyped, AttemptRecords, Errors
<1>3. QED
  BY <1>1, <1>2 DEF FeesAreUsable, Rising

LEMMA CoherentPreview ==
  ASSUME IInv
  PROVE  PreviewIsCoherent
<1>1. Paying =>
        /\ shown.max => shown.netted = shown.selected
        /\ shown.usd # Unknown => \E rate \in FiatRates : shown.amount = shown.usd \div rate
        /\ shown.max => MaxFits(shown.amount, shown.fee, shown.basis, shown.tier)
  BY DEF IInv, PaidOK, ShownOK, Paying
<1>2. ASSUME Paying, shown.max, currency = "btc"
      PROVE  Sum(shown.basis[3]) = shown.amount + shown.fee
  <2>1. SweepFits(shown.amount, shown.fee, shown.basis, shown.tier)
    BY <1>1, <1>2 DEF MaxFits
  <2>2. Sum(shown.basis[3]) \in Nat /\ shown.amount = Sum(shown.basis[3]) - shown.fee
    BY <2>1, CoinsAreValued DEF SweepFits
  <2>3. shown.fee \in Nat
    BY DEF IInv, Typed, PopupTyped, Previews
  <2>4. QED
    BY <2>2, <2>3
<1>3. QED
  BY <1>1, <1>2, PaymentTyped, UsableFees DEF PreviewIsCoherent, Paying

LEMMA PaidAsConfirmed ==
  ASSUME IInv
  PROVE  PaysWhatWasConfirmed
<1>1. ASSUME NEW t \in sent, currency = "btc"
      PROVE  /\ t.inputs # {} /\ \A c \in t.inputs : c.owner = t.from
             /\ t.change = 0 \/ t.change >= Dust
             /\ t.fee >= Sized(shown.tier.rate, t.from, Cardinality(t.inputs), t.change > 0)
             /\ t.fee < Sized(shown.tier.rate, t.from, Cardinality(t.inputs), TRUE) + Dust
             /\ shown.max => t.fee = Sized(shown.tier.rate, t.from, Cardinality(t.inputs), FALSE)
  <2>1. /\ t.inputs # {} /\ \A c \in t.inputs : c.owner = t.from
        /\ FeeOK(t.fee, t.change, t.inputs, t.from)
    BY <1>1 DEF IInv, PaidOK, SentOK
  <2>2. t.fee >= Sized(shown.tier.rate, t.from, Cardinality(t.inputs), t.change > 0)
    <3>1. Sized(shown.tier.rate, t.from, Cardinality(t.inputs), t.change > 0) =
            IF t.change > 0 THEN Full(shown.tier.rate, t.from, Cardinality(t.inputs))
                            ELSE Lean(shown.tier.rate, t.from, Cardinality(t.inputs))
      BY DEF Sized, Full, Lean
    <3>2. QED
      BY <2>1, <3>1 DEF FeeOK
  <2>3. /\ t.change = 0 \/ t.change >= Dust
        /\ t.fee < Full(shown.tier.rate, t.from, Cardinality(t.inputs)) + Dust
        /\ shown.max => t.fee = Lean(shown.tier.rate, t.from, Cardinality(t.inputs))
    BY <2>1, Zenon DEF FeeOK
  <2>4. QED
    BY <2>1, <2>2, <2>3, Zenon DEF Full, Lean
<1>2. SpendsOwnCoins
  BY <1>1, Zenon DEF SpendsOwnCoins
<1>3. ASSUME NEW t \in sent
      PROVE  t.amount = shown.amount /\ (currency # "btc" => t.fee <= shown.fee)
  BY DEF IInv, PaidOK, SentOK
<1>4. QED
  BY <1>1, <1>2, <1>3, Zenon DEF PaysWhatWasConfirmed

LEMMA StandingMaximum ==
  ASSUME IInv
  PROVE  MaxStands
<1>1. \A a \in Accounts : Sum(Sweepable(wallet.cache[a])) = Confirmed(wallet.cache[a])
  BY SweepIsBalance DEF IInv, Typed, WalletTyped
<1>2. \A i \in 1..MaxAttempts : AttemptOK(i, attempts[i], sent)
  BY DEF IInv, PaidOK
<1>3. QED
  BY <1>1, <1>2 DEF MaxStands, AttemptOK

LEMMA RefusedIsUnsent ==
  ASSUME IInv
  PROVE  RefusalMeansUnsent
<1>1. ASSUME NEW i \in 1..MaxAttempts, NEW t \in sent, t.attempt = i, attempts[i].pc = "failed"
      PROVE  /\ attempts[i].error \in {"timeout", "unexpected", "lost"}
             /\ attempts[i].error # "unexpected" =>
                  attempts[i].seen \notin {"password", "insufficient", "dust", "max changed"}
  <2>1. SentOK(t, attempts[i]) /\ AttemptOK(i, attempts[i], sent)
    BY <1>1 DEF IInv, PaidOK
  <2>2. attempts[i].error \in {"timeout", "unexpected", "lost"}
    BY <1>1, <2>1 DEF SentOK
  <2>3. attempts[i].seen \in Message(attempts[i].error)
    BY <1>1, <2>1 DEF AttemptOK
  <2>4. QED
    BY <2>2, <2>3 DEF Message
<1>2. page = "status" => sent # {}
  BY DEF IInv, PaidOK, StatusOK
<1>3. QED
  BY <1>1, <1>2 DEF RefusalMeansUnsent

LEMMA AnswerIsComing ==
  ASSUME IInv
  PROVE  SomeoneWillAnswer
BY DEF IInv, FormsOK, RequestsOK, PaidOK, StatusOK, SomeoneWillAnswer

\* SendPreview never shows a mixture, the fees that are offered are usable, and the state has
\* its types.
THEOREM CoherentPreviews == Spec => [](PreviewIsCoherent /\ FeesAreUsable)
BY PaymentInvariant, CoherentPreview, UsableFees, PTL

\* The network takes what was confirmed, whatever happened since: the amount to the unit, from
\* coins of the account that pays, for a fee within its bounds.
THEOREM ConfirmedIsPaid == Spec => []PaysWhatWasConfirmed
BY PaymentInvariant, PaidAsConfirmed, PTL

\* A maximum is only refused when what it was calculated from has changed.
THEOREM MaximaStand == Spec => []MaxStands
BY PaymentInvariant, StandingMaximum, PTL

\* A failed confirmation has sent nothing, unless the answer to its broadcast was lost or was
\* neither an error nor a hash.
THEOREM RefusedPaymentsAreUnsent == Spec => []RefusalMeansUnsent
BY PaymentInvariant, RefusedIsUnsent, PTL

\* The popup never waits for nobody.
THEOREM PopupIsAnswered == Spec => []SomeoneWillAnswer
BY PaymentInvariant, AnswerIsComing, PTL
=============================================================================
