------------------------------- MODULE Payment -------------------------------
(***************************************************************************)
(* A payment, from the amount the user types to the transaction the network*)
(* takes: the pages Send, SendOptions, SendPreview and SendStatus of the   *)
(* popup, and behind them fee estimation, coin selection, signing and      *)
(* broadcasting for Bitcoin, and the same calls of the Ethereum adapter.   *)
(*                                                                         *)
(* Amounts are small integers of the smallest unit: the fields hold decimal*)
(* strings, which the pages pass on verbatim.  An empty field is zero.  The*)
(* caches of coins are what the scans last stored, so they may be older    *)
(* than the chain.                                                         *)
(***************************************************************************)
EXTENDS Integers, Sequences, FiniteSets, FiniteSetsExt, SequencesExt

CONSTANTS
  Currencies,  \* what is sent, of "btc", "eth", "usdt"
  Accounts,    \* the wallet's accounts
  Coins,       \* the coins at the start: records [id, owner, side, value, height]
  Deposit,     \* a coin that may arrive
  InVB, OutVB, \* the sizes of an input and an output of each account's script type
  Overhead,    \* the size of everything else, the recipient's output included
  Dust,        \* the least an output may carry
  RateAnswers, \* what a provider of fee rates may answer: records [slow, medium, fast]
  Markets,     \* what the Ethereum node may say of fees
  Ether,       \* the wei and the tokens of each account at the start
  Amounts,     \* what is typed as an amount
  FiatAmounts, \* what is typed in the fiat field
  FiatRates,   \* the fiat rates that may arrive
  MaxPresses,  \* up to where maxSendRequestRef counts maxima and edits
  MaxAttempts, \* how many times the confirmation is given
  MaxMoves     \* how much else happens: blocks, deposits, scans, switches, locks

Unknown == -1

CoinRecords == [id : Nat, owner : Accounts, side : {"external", "internal"}, value : Nat, height : Nat]

\* A provider's rates are positive, in whatever order; the tips of the fee history are
\* percentiles, which are in theirs.
ASSUME PaymentAssumption ==
  /\ Currencies \subseteq {"btc", "eth", "usdt"}
  /\ Coins \subseteq CoinRecords /\ IsFiniteSet(Coins) /\ Coins # {} /\ Deposit \in CoinRecords
  /\ InVB \in [Accounts -> Nat \ {0}] /\ OutVB \in [Accounts -> Nat \ {0}]
  /\ Overhead \in Nat \ {0} /\ Dust \in Nat \ {0}
  /\ RateAnswers \subseteq [slow : Nat \ {0}, medium : Nat \ {0}, fast : Nat \ {0}]
  /\ \A m \in Markets :
       /\ m.base \in Nat /\ m.gasPrice \in Nat
       /\ {m.suggestedCap, m.suggestedTip, m.rpcTip} \subseteq Nat \cup {Unknown}
       /\ m.history # <<>> =>
            m.history \in [1..3 -> Nat] /\ m.history[1] <= m.history[2] /\ m.history[2] <= m.history[3]
  /\ Ether \in [Accounts -> [wei : Nat, tokens : Nat, count : Nat]]
  /\ Amounts \subseteq Nat /\ FiatAmounts \subseteq Nat /\ FiatRates \subseteq Nat \ {0}
  /\ MaxPresses \in Nat /\ MaxAttempts \in Nat /\ MaxMoves \in Nat

VARIABLES
  currency, \* what this payment sends
  world,    \* the Bitcoin and the Ethereum chain: coins, tip, ether
  wallet,   \* accountManager, the stored coins of each account, the lock
  page,     \* which page of the popup is open
  known,    \* the balances the page has, Unknown while they load
  fiat,     \* fiatRate
  options,  \* feeOptions, with what the fees were estimated from
  form,     \* the fields and flags of SendOptions
  requests, \* calls of estimateMaxSend that have no answer yet
  shown,    \* what SendPreview shows and will send
  screen,   \* confirmLoading and the error of SendPreview
  attempts, \* the confirmations and, behind each, the worker's sendPayment
  sent,     \* the transactions the network has taken
  moves     \* what the bounds have left

popup == <<page, known, fiat, options, form, requests, shown, screen>>
vars == <<currency, world, wallet, popup, attempts, sent, moves>>

Lag == 2            \* by how many blocks a server may be behind
FirstTip == Lag + 1

NoForm == [amount |-> 0, usd |-> 0, edited |-> "asset", max |-> FALSE, maxFee |-> Unknown, loading |-> FALSE,
           ref |-> 0, selected |-> 2, basis |-> <<>>, netted |-> 0]
NoTier == [rate |-> 0, fee |-> 0, cap |-> 0, tip |-> Unknown]
NoPreview == [amount |-> 0, usd |-> Unknown, fee |-> 0, tier |-> NoTier, max |-> FALSE, basis |-> <<>>, netted |-> 0,
              selected |-> 0]
NoAttempt == [pc |-> "none", from |-> CHOOSE a \in Accounts : TRUE, payer |-> CHOOSE a \in Accounts : TRUE,
              inputs |-> {}, change |-> 0, basis |-> <<>>, nonce |-> 0, error |-> "", seen |-> ""]

Init ==
  /\ currency \in Currencies
  /\ world = [coins |-> Coins, tip |-> FirstTip, ether |-> Ether]
  /\ wallet = [active |-> CHOOSE a \in Accounts : \E c \in Coins : c.owner = a, locked |-> FALSE,
               cache |-> [a \in Accounts |-> {c \in Coins : c.owner = a}]]
  /\ page = "send"
  /\ known = [asset |-> Unknown, gas |-> Unknown]
  /\ fiat = 0
  /\ options = <<>>
  /\ form = NoForm
  /\ requests = {}
  /\ shown = NoPreview
  /\ screen = [confirming |-> FALSE, error |-> ""]
  /\ attempts = [i \in 1..MaxAttempts |-> NoAttempt]
  /\ sent = {}
  /\ moves = MaxMoves

Active == wallet.active
Sum(cs) == MapThenSumSet(LAMBDA c : c.value, cs)

-----------------------------------------------------------------------------
(* Fee rates for Bitcoin.                                                  *)

\* The k-th of some numbers in their order: fewer than k are below it.
Kth(ns, k) == CHOOSE v \in Range(ns) : /\ Cardinality({i \in DOMAIN ns : ns[i] < v}) < k
                                        /\ Cardinality({i \in DOMAIN ns : ns[i] <= v}) >= k

\* median()
Middle(ns) ==
  LET m == Cardinality(DOMAIN ns) \div 2
  IN IF Cardinality(DOMAIN ns) % 2 = 0 THEN (Kth(ns, m) + Kth(ns, m + 1)) \div 2 ELSE Kth(ns, m + 1)

\* clamp()
Clamped(n) == Min({1000, Max({1, n})})

Fallback == [slow |-> 2, medium |-> 5, fast |-> 10]

\* The median of the providers that answered, for each speed; with none, the fallback.
ReliableRates(answers) ==
  IF answers = <<>> THEN Fallback
  ELSE [speed \in {"slow", "medium", "fast"} |-> Clamped(Middle([k \in DOMAIN answers |-> answers[k][speed]]))]

\* Any of the three providers may fail.
RateEstimates == {ReliableRates(answers) : answers \in SeqOf(RateAnswers, 3)}

\* createFeeSizer()
Sized(rate, a, inputs, change) ==
  rate * (Overhead + inputs * InVB[a] + (IF change THEN OutVB[a] ELSE 0))

\* Each speed is priced for one input and a change output.
BitcoinTiers(rates, a) ==
  [i \in 1..3 |-> LET rate == rates[<<"slow", "medium", "fast">>[i]]
                  IN [rate |-> rate, fee |-> Sized(rate, a, 1, TRUE), cap |-> 0, tip |-> Unknown]]

-----------------------------------------------------------------------------
(* Fee tiers for Ethereum, from what the node says of the market.          *)

\* Division that rounds up.
Scaled(n, numerator, denominator) == (n * numerator + denominator - 1) \div denominator
TierScale == <<<<9, 10>>, <<1, 1>>, <<115, 100>>>>
Gas == IF currency = "usdt" THEN 3 ELSE 1

\* A suggested tip serves all three speeds; the history gives one for each.
Tips(m, base) ==
  LET suggested == IF m.suggestedTip # Unknown THEN m.suggestedTip
                   ELSE IF m.rpcTip # Unknown THEN m.rpcTip ELSE 0
      spread == <<suggested \div 2, suggested, IF suggested > 0 THEN Scaled(suggested, 3, 2) ELSE base \div 10>>
      tips == IF m.history # <<>> THEN m.history ELSE spread
  IN IF \A i \in 1..3 : tips[i] = 0 THEN <<0, 0, base \div 10>> ELSE tips

\* The most a unit of gas may cost: enough for the base fee to double.
Cap(m, base, tip, i) ==
  Max({2 * base + tip, base + tip,
       IF m.suggestedCap # Unknown THEN Scaled(m.suggestedCap, TierScale[i][1], TierScale[i][2]) ELSE 0})

EthereumTiers(m) ==
  IF m.base > 0
  THEN [i \in 1..3 |-> LET tip == Tips(m, m.base)[i]
                           cap == Cap(m, m.base, tip, i)
                       IN [rate |-> m.base + tip, fee |-> cap * Gas, cap |-> cap, tip |-> tip]]
  ELSE [i \in 1..3 |-> LET price == Scaled(m.gasPrice, TierScale[i][1], TierScale[i][2])
                       IN [rate |-> price, fee |-> price * Gas, cap |-> price, tip |-> Unknown]]

\* buildTransactionOverrides() accepts the tier.
Overridable(t) == t.cap > 0 /\ (t.tip = Unknown \/ t.tip <= t.cap)

Estimates ==
  IF currency = "btc" THEN {BitcoinTiers(rates, Active) : rates \in RateEstimates}
  ELSE {EthereumTiers(m) : m \in {k \in Markets : k.base > 0 \/ k.gasPrice > 0}}

-----------------------------------------------------------------------------
(* Which coins can be spent.                                               *)

\* Own change counts before it is mined, a deposit does not.
Settled(c) == c.height > 0 \/ c.side = "internal"

\* getBalance(): confirmed
Confirmed(cs) == Sum({c \in cs : c.height > 0}) + Sum({c \in cs : c.height = 0 /\ c.side = "internal"})

\* sweepableUtxos()
Sweepable(cs) == {c \in cs : Settled(c)}

\* getConsensusTip(): the median height of the servers, and the header of a server whose
\* height two servers share, the nearest to the median, or of the nearest one.
ConsensusTip(heights) ==
  LET med == Middle(heights)
      away(h) == IF h < med THEN med - h ELSE h - med
      shared == {h \in Range(heights) : Cardinality({k \in DOMAIN heights : heights[k] = h}) > 1}
      pool == IF shared # {} THEN shared ELSE Range(heights)
  IN {[height |-> med, root |-> h] : h \in {h \in pool : \A g \in pool : away(h) <= away(g)}}

\* Each of three servers is up to Lag blocks behind or does not answer; two must answer.
TipsAt ==
  [t \in FirstTip..(FirstTip + MaxMoves) |->
     UNION {ConsensusTip(hs) : hs \in UNION {[1..n -> (t - Lag)..t] : n \in 2..3}}]

\* verifyMerkleProof(): a coin's proof leads to the header of its own block only.
Proven(c, tip) == c.height = tip.root

\* getUtxos(): what it may return for the coins stored.  A coin at the tip's height is left
\* out when its proof does not lead to the tip's header, and kept when there is no proof.
Views(cs) ==
  {cs} \cup UNION {{cs \ out : out \in SUBSET {c \in cs : c.height = tip.height /\ ~Proven(c, tip)}} :
                     tip \in TipsAt[world.tip]}

\* The coins by falling value, up to some place.
Before(x, y) == x.value > y.value \/ (x.value = y.value /\ x.id < y.id)
First(cs) == {firsts \in SUBSET cs : firsts # {} /\ \A x \in firsts, y \in cs \ firsts : Before(x, y)}

\* selectUtxo(): the fewest of the coins by falling value that pay the target and a fee with
\* change; a change that would be dust goes to the fee.
Selection(cs, target, rate, a) ==
  LET rest(inputs) == Sum(inputs) - target - Sized(rate, a, Cardinality(inputs), TRUE)
      enough == {inputs \in First(cs) : rest(inputs) >= 0}
  IN {[inputs |-> inputs, change |-> IF rest(inputs) < Dust THEN 0 ELSE rest(inputs)] :
        inputs \in {x \in enough : \A y \in enough : x \subseteq y}}

\* sweepAmount()
Swept(cs, rate, a) ==
  [inputs |-> Sweepable(cs), fee |-> Sized(rate, a, Cardinality(Sweepable(cs)), FALSE),
   amount |-> Sum(Sweepable(cs)) - Sized(rate, a, Cardinality(Sweepable(cs)), FALSE)]
CanSweep(s) == s.inputs # {} /\ s.amount >= Dust

\* A bound: the rest of the world only moves once the fees are there, before which nothing was
\* read that could become stale, and until the last confirmation has ended.
MayMove ==
  /\ moves > 0
  /\ options # <<>> \/ page = "preview" \/ \E i \in 1..MaxAttempts : attempts[i].pc \notin {"none", "done", "failed"}

-----------------------------------------------------------------------------
(* The pages Send and SendOptions.                                         *)

\* The balance the pages show for this asset, and the one its fee is paid from.
BalanceNow ==
  LET ether == world.ether[Active]
  IN CASE currency = "btc" -> [asset |-> Confirmed(wallet.cache[Active]), gas |-> 0]
       [] currency = "eth" -> [asset |-> ether.wei, gas |-> ether.wei]
       [] OTHER -> [asset |-> ether.tokens, gas |-> ether.wei]

\* A balance arrives: from the context, or as the answer of getBalance.
ShowBalance ==
  /\ page \in {"send", "options"} /\ known # BalanceNow
  /\ known' = BalanceNow
  /\ UNCHANGED <<currency, world, wallet, page, fiat, options, form, requests, shown, screen, attempts, sent, moves>>

\* handleNext() of Send: a valid address was typed.
OpenOptions ==
  /\ page = "send" /\ known.asset # Unknown
  /\ page' = "options"
  /\ UNCHANGED <<currency, world, wallet, known, fiat, options, form, requests, shown, screen, attempts, sent, moves>>

\* The effect that keeps the two fields in step.
Coupled(f, rate) ==
  CASE rate = 0 -> IF f.edited = "asset" THEN [f EXCEPT !.usd = 0] ELSE f
    [] rate # 0 /\ f.edited = "asset" -> [f EXCEPT !.usd = f.amount * rate]
    [] OTHER -> [f EXCEPT !.amount = f.usd \div rate]

Rendered(f) == form' = Coupled(f, fiat)

FiatRateArrives ==
  \E rate \in FiatRates \cup {0} :
    /\ page = "options" /\ rate # fiat /\ MayMove
    /\ fiat' = rate
    /\ form' = Coupled(form, rate)
    /\ moves' = moves - 1
    /\ UNCHANGED <<currency, world, wallet, page, known, options, requests, shown, screen, attempts, sent>>

\* The answer of chain.estimateFee; the middle speed is selected.
FeesArrive ==
  /\ page = "options" /\ options = <<>>
  /\ options' \in Estimates
  /\ UNCHANGED <<currency, world, wallet, page, known, fiat, form, requests, shown, screen, attempts, sent, moves>>

\* What disables the fields and the buttons.
Ready == page = "options" /\ options # <<>> /\ ~form.loading

\* clearMaxSend()
Cleared(f) == [f EXCEPT !.ref = @ + 1, !.max = FALSE, !.maxFee = Unknown, !.loading = FALSE, !.basis = <<>>, !.netted = 0]

TypeAmount(n) ==
  /\ Ready /\ known.asset # Unknown /\ form.amount # n /\ form.ref < MaxPresses
  /\ Rendered([Cleared(form) EXCEPT !.edited = "asset", !.amount = n])
  /\ UNCHANGED <<currency, world, wallet, page, known, fiat, options, requests, shown, screen, attempts, sent, moves>>

TypeFiat(n) ==
  /\ Ready /\ fiat # 0 /\ form.usd # n /\ form.ref < MaxPresses
  /\ Rendered([Cleared(form) EXCEPT !.edited = "usd", !.usd = n])
  /\ UNCHANGED <<currency, world, wallet, page, known, fiat, options, requests, shown, screen, attempts, sent, moves>>

\* runMaxSend(), up to its await
RunMaxSend(f) ==
  /\ Rendered([f EXCEPT !.ref = @ + 1, !.loading = TRUE])
  /\ requests' = requests \cup {[id |-> f.ref + 1, selected |-> f.selected, from |-> Active]}

PressMax ==
  /\ Ready /\ known.asset # Unknown /\ form.ref < MaxPresses
  /\ RunMaxSend(form)
  /\ UNCHANGED <<currency, world, wallet, page, known, fiat, options, shown, screen, attempts, sent, moves>>

\* Faulty variant: the amount for the old speed stays until the new one is known.
SelectFeeKeepsAmount(k) ==
  /\ Ready /\ k # form.selected /\ form.ref < MaxPresses
  /\ IF form.max
     THEN LET f == [form EXCEPT !.selected = k]
          IN /\ Rendered([f EXCEPT !.ref = @ + 1])
             /\ requests' = requests \cup {[id |-> f.ref + 1, selected |-> f.selected, from |-> Active]}
     ELSE form' = [form EXCEPT !.selected = k] /\ UNCHANGED requests
  /\ UNCHANGED <<currency, world, wallet, page, known, fiat, options, shown, screen, attempts, sent, moves>>

\* Faulty variant: the new speed does not start a new calculation.
SelectFeeOnly(k) ==
  /\ Ready /\ k # form.selected /\ form.ref < MaxPresses
  /\ form' = IF form.max
             THEN [form EXCEPT !.selected = k, !.ref = @ + 1, !.maxFee = Unknown, !.amount = 0, !.usd = 0,
                               !.loading = TRUE]
             ELSE [form EXCEPT !.selected = k]
  /\ UNCHANGED <<currency, world, wallet, page, known, fiat, options, requests, shown, screen, attempts, sent, moves>>

\* handleFeeSelect(), and the effect of a new index: a maximum is calculated anew.
SelectFee(k) ==
  /\ Ready /\ k # form.selected /\ form.ref < MaxPresses
  /\ IF form.max
     THEN RunMaxSend([form EXCEPT !.selected = k, !.ref = @ + 1, !.maxFee = Unknown, !.amount = 0, !.usd = 0])
     ELSE form' = [form EXCEPT !.selected = k] /\ UNCHANGED requests
  /\ UNCHANGED <<currency, world, wallet, page, known, fiat, options, shown, screen, attempts, sent, moves>>

\* estimateMaxSend() for Bitcoin: every amount it may find.
BitcoinMaxima(q) ==
  {LET s == Swept(cs, options[q.selected].rate, Active)
   IN [ok |-> CanSweep(s), amount |-> s.amount, fee |-> s.fee, basis |-> <<q.from, Active, s.inputs>>] : cs \in Views(wallet.cache[q.from])}

\* Faulty variant: the fee is reserved at the price that is likely paid.
ReserveEffective(t) == t.rate * Gas

\* resolveReserveGasPriceWei(), for the whole gas
Reserve(t) == t.cap * Gas

\* estimateMaxSend() for Ethereum
EthereumMaximum(q) ==
  LET ether == world.ether[q.from]
      reserve == Reserve(options[q.selected])
  IN [ok |-> TRUE, fee |-> reserve, basis |-> <<q.from, ether>>,
      amount |-> IF currency = "usdt" THEN ether.tokens ELSE Max({ether.wei - reserve, 0})]

Maxima(q) == IF currency = "btc" THEN BitcoinMaxima(q) ELSE {EthereumMaximum(q)}

\* The answer is dropped unless it is the latest call's; it always is, since the page is
\* disabled while a call is out.
MaxArrives(q) ==
  \E m \in Maxima(q) :
    /\ requests' = requests \ {q}
    /\ CASE q.id # form.ref -> UNCHANGED form
         [] q.id = form.ref /\ m.ok ->
              Rendered([form EXCEPT !.max = TRUE, !.maxFee = m.fee, !.edited = "asset", !.amount = m.amount,
                                    !.loading = FALSE, !.basis = m.basis, !.netted = q.selected])
         [] OTHER -> Rendered([Cleared(form) EXCEPT !.ref = form.ref, !.amount = 0, !.usd = 0])
    /\ UNCHANGED <<currency, world, wallet, page, known, fiat, options, shown, screen, attempts, sent, moves>>

\* The call fails, as it does when the worker dies.
MaxFails(q) ==
  /\ requests' = requests \ {q}
  /\ IF q.id = form.ref
     THEN Rendered([Cleared(form) EXCEPT !.ref = form.ref, !.amount = 0, !.usd = 0])
     ELSE UNCHANGED form
  /\ UNCHANGED <<currency, world, wallet, page, known, fiat, options, shown, screen, attempts, sent, moves>>

\* The balance covers the amount and the fee; the amount of a maximum is not checked again.
Affordable ==
  LET tier == options[form.selected]
  IN IF currency = "usdt" THEN (form.max \/ known.asset >= form.amount) /\ known.gas >= tier.fee
     ELSE form.max \/ known.asset - tier.fee >= form.amount

\* handleNext() of SendOptions, whose state goes with the page
OpenPreview ==
  /\ Ready /\ known.asset # Unknown /\ form.amount > 0 /\ Affordable
  /\ page' = "preview"
  /\ shown' = [amount |-> form.amount, usd |-> IF fiat # 0 THEN form.usd ELSE Unknown,
               fee |-> IF form.max /\ currency # "usdt" THEN form.maxFee ELSE options[form.selected].fee,
               tier |-> options[form.selected], selected |-> form.selected,
               max |-> form.max, basis |-> form.basis, netted |-> form.netted]
  /\ known' = [asset |-> Unknown, gas |-> Unknown] /\ fiat' = 0 /\ options' = <<>> /\ form' = NoForm
  /\ UNCHANGED <<currency, world, wallet, requests, screen, attempts, sent, moves>>

-----------------------------------------------------------------------------
(* The page SendPreview and the worker behind it.                          *)

Running(i) == attempts[i].pc \notin {"none", "done", "failed"}

\* What the preview may make of an error.  The text of a server's refusal decides, or of its
\* unexpected answer, and in the text of a timeout the hexadecimal digits of the transaction's
\* hash may spell "fee".
Message(error) ==
  CASE error \in {"rejected", "unexpected"} -> {"insufficient", "dust", "fee", "went wrong"}
    [] error = "timeout" -> {"fee", "went wrong"}
    [] error = "funds" -> {"insufficient"}
    [] error \in {"password", "max changed"} -> {error}
    [] OTHER -> {"went wrong"}

\* The catch and the finally of handleConfirm().
FailFrom(records, i, error) ==
  \E text \in Message(error) :
    /\ attempts' = [records EXCEPT ![i].pc = "failed", ![i].error = error, ![i].seen = text]
    /\ screen' = [confirming |-> FALSE, error |-> text]

Fail(i, error) == FailFrom(attempts, i, error)

Step(i, pc) == attempts' = [attempts EXCEPT ![i].pc = pc]

\* A click, or the Enter key, which the running confirmation does not disable.
Confirm(i) ==
  /\ page = "preview" /\ attempts[i].pc = "none" /\ \A j \in 1..(i - 1) : attempts[j].pc # "none"
  /\ Step(i, "verify")
  /\ screen' = [confirming |-> TRUE, error |-> ""]
  /\ UNCHANGED <<currency, world, wallet, page, known, fiat, options, form, requests, shown, sent, moves>>

\* wallet.verifyPassword answers, then chain.sendPayment begins with requireUnlockedWallet().
Verified(i) ==
  /\ attempts[i].pc = "verify"
  /\ \/ Fail(i, "password")
     \/ wallet.locked /\ Fail(i, "locked")
     \/ currency # "btc" /\ ~wallet.locked /\ ~Overridable(shown.tier) /\ Fail(i, "options")
     \/ /\ ~wallet.locked
        /\ currency = "btc" \/ Overridable(shown.tier)
        /\ attempts' = [attempts EXCEPT ![i].pc = "build", ![i].from = Active]
        /\ UNCHANGED screen
  /\ UNCHANGED <<currency, world, wallet, page, known, fiat, options, form, requests, shown, sent, moves>>

\* Faulty variant: a sweep takes what there is now.
PlanUnchecked(cs, a) ==
  LET s == Swept(cs, shown.tier.rate, a)
      chosen == Selection(cs, shown.amount, shown.tier.rate, a)
      plan == [error |-> "", inputs |-> {}, change |-> 0]
  IN CASE shown.max /\ ~CanSweep(s) -> [plan EXCEPT !.error = "funds"]
       [] shown.max /\ CanSweep(s) -> [plan EXCEPT !.inputs = s.inputs]
       [] ~shown.max /\ chosen = {} -> [plan EXCEPT !.error = "funds"]
       [] OTHER -> CHOOSE p \in {[plan EXCEPT !.inputs = x.inputs, !.change = x.change] : x \in chosen} : TRUE

\* The coins to spend and the change: a sweep must still come to the amount shown.
Plan(cs, a) ==
  LET s == Swept(cs, shown.tier.rate, a)
      chosen == Selection(cs, shown.amount, shown.tier.rate, a)
      plan == [error |-> "", inputs |-> {}, change |-> 0]
  IN CASE shown.max /\ ~CanSweep(s) -> [plan EXCEPT !.error = "funds"]
       [] shown.max /\ CanSweep(s) /\ s.amount # shown.amount -> [plan EXCEPT !.error = "max changed"]
       [] shown.max /\ CanSweep(s) /\ s.amount = shown.amount -> [plan EXCEPT !.inputs = s.inputs]
       [] ~shown.max /\ chosen = {} -> [plan EXCEPT !.error = "funds"]
       [] OTHER -> CHOOSE p \in {[plan EXCEPT !.inputs = x.inputs, !.change = x.change] : x \in chosen} : TRUE

\* walletManager.sendPayment(): the coins are read of the account that was active when it
\* began; the account that is active now pays and takes the change.
Build(i) ==
  /\ currency = "btc" /\ attempts[i].pc = "build"
  /\ \E cs \in Views(wallet.cache[attempts[i].from]) :
       LET plan == Plan(cs, Active)
           built == [attempts EXCEPT ![i].basis = <<attempts[i].from, Active, Sweepable(cs)>>, ![i].payer = Active, ![i].pc = "sign",
                                     ![i].inputs = plan.inputs, ![i].change = plan.change]
       IN IF plan.error # "" THEN FailFrom(built, i, plan.error) ELSE attempts' = built /\ UNCHANGED screen
  /\ UNCHANGED <<currency, world, wallet, page, known, fiat, options, form, requests, shown, sent, moves>>

\* signPsbt(): the paths must be the active account's, and a key only signs for its own coin.
Signable(i) ==
  /\ ~wallet.locked /\ attempts[i].payer = Active
  /\ \A c \in attempts[i].inputs : c.owner = attempts[i].payer

Sign(i) ==
  /\ attempts[i].pc = "sign"
  /\ IF Signable(i) THEN Step(i, "broadcast") /\ UNCHANGED screen ELSE Fail(i, "signing")
  /\ UNCHANGED <<currency, world, wallet, page, known, fiat, options, form, requests, shown, sent, moves>>

\* sendTransaction() asks for the number of transactions the account has sent.
Populate(i) ==
  /\ currency # "btc" /\ attempts[i].pc = "build"
  /\ attempts' = [attempts EXCEPT ![i].pc = "broadcast", ![i].nonce = world.ether[attempts[i].from].count]
  /\ UNCHANGED <<currency, world, wallet, popup, sent, moves>>

Paid(i) ==
  [currency |-> currency, attempt |-> i, from |-> attempts[i].payer, inputs |-> attempts[i].inputs,
   amount |-> shown.amount, change |-> attempts[i].change,
   fee |-> Sum(attempts[i].inputs) - shown.amount - attempts[i].change]

\* The Bitcoin network only takes a transaction whose inputs are unspent.
DeliverBitcoin(i) ==
  /\ currency = "btc" /\ attempts[i].pc = "broadcast"
  /\ \/ /\ {c.id : c \in attempts[i].inputs} \subseteq {c.id : c \in world.coins}
        /\ sent' = sent \cup {Paid(i)}
        /\ world' = [world EXCEPT !.coins =
             {c \in @ : \A d \in attempts[i].inputs : c.id # d.id} \cup
             (IF attempts[i].change = 0 THEN {}
              ELSE {[id |-> 100 + i, owner |-> attempts[i].payer, side |-> "internal", height |-> 0,
                     value |-> attempts[i].change]})]
        /\ Step(i, "taken")
     \/ Step(i, "refused") /\ UNCHANGED <<world, sent>>
  /\ UNCHANGED <<currency, wallet, popup, moves>>

\* What the node wants to see in the account before it takes the transaction.
Covers(ether, t) ==
  IF currency = "usdt" THEN ether.wei >= Gas * t.cap /\ ether.tokens >= shown.amount
  ELSE ether.wei >= shown.amount + Gas * t.cap

\* The Ethereum node takes it if the number is the next one and the balance covers the cap.
DeliverEthereum(i) ==
  /\ currency # "btc" /\ attempts[i].pc = "broadcast"
  /\ LET a == attempts[i].from
         ether == world.ether[a]
     IN IF attempts[i].nonce = ether.count /\ Covers(ether, shown.tier)
        THEN /\ sent' = sent \cup {[Paid(i) EXCEPT !.from = a, !.fee = Gas * shown.tier.cap]}
             /\ world' = [world EXCEPT !.ether[a] =
                  [wei |-> ether.wei - Gas * shown.tier.rate - (IF currency = "eth" THEN shown.amount ELSE 0),
                   tokens |-> ether.tokens - (IF currency = "usdt" THEN shown.amount ELSE 0),
                   count |-> ether.count + 1]]
             /\ Step(i, "taken")
        ELSE /\ attempts' = [attempts EXCEPT ![i].pc = "refused", ![i].basis = <<a, ether>>,
                                ![i].error = IF Covers(ether, shown.tier) THEN "rejected" ELSE "funds"]
             /\ UNCHANGED <<world, sent>>
  /\ UNCHANGED <<currency, wallet, popup, moves>>

\* The popup goes to SendStatus.
Succeed(i) ==
  /\ Step(i, "done")
  /\ page' = "status"
  /\ screen' = [screen EXCEPT !.confirming = FALSE]

\* The answer: a Bitcoin payment is then recorded, an Ethereum payment is done.
Answered(i) ==
  /\ attempts[i].pc \in {"taken", "refused"}
  /\ CASE attempts[i].pc = "refused" -> Fail(i, IF currency = "btc" THEN "rejected" ELSE attempts[i].error) /\ UNCHANGED page
       [] attempts[i].pc = "taken" /\ currency = "btc" -> Step(i, "record") /\ UNCHANGED <<page, screen>>
       [] OTHER -> Succeed(i)
  /\ UNCHANGED <<currency, world, wallet, known, fiat, options, form, requests, shown, sent, moves>>

\* The request to broadcast times out, whether or not the network has the transaction.
TimesOut(i) ==
  /\ currency = "btc" /\ attempts[i].pc \in {"broadcast", "taken", "refused"}
  /\ Fail(i, "timeout")
  /\ UNCHANGED <<currency, world, wallet, page, known, fiat, options, form, requests, shown, sent, moves>>

\* The server answers with something that is neither an error nor a transaction's hash: that
\* is an error to broadcastTx(), whether or not the network has the transaction.
AnsweredOddly(i) ==
  /\ currency = "btc" /\ attempts[i].pc \in {"taken", "refused"} /\ MayMove
  /\ Fail(i, "unexpected")
  /\ moves' = moves - 1
  /\ UNCHANGED <<currency, world, wallet, page, known, fiat, options, form, requests, shown, sent>>

\* The node or the server cannot be reached any more.
ConnectionLost(i) ==
  /\ attempts[i].pc \in {"broadcast", "taken", "refused"} /\ MayMove
  /\ Fail(i, "lost")
  /\ moves' = moves - 1
  /\ UNCHANGED <<currency, world, wallet, page, known, fiat, options, form, requests, shown, sent>>

\* The service worker stops: every message to it fails.
WorkerDies ==
  /\ \E i \in 1..MaxAttempts : Running(i)
  /\ MayMove
  /\ attempts' = [i \in 1..MaxAttempts |->
                    IF Running(i) THEN [attempts[i] EXCEPT !.pc = "failed", !.error = "lost", !.seen = "went wrong"]
                    ELSE attempts[i]]
  /\ screen' = [confirming |-> FALSE, error |-> "went wrong"]
  /\ moves' = moves - 1
  /\ UNCHANGED <<currency, world, wallet, page, known, fiat, options, form, requests, shown, sent>>

Scanned(a) == [wallet EXCEPT !.cache[a] = {c \in world.coins : c.owner = a}]

\* Faulty variant: a payment that cannot be recorded is reported as failed.
RecordedOrFailed(i) ==
  /\ attempts[i].pc = "record"
  /\ \/ Fail(i, "storage") /\ UNCHANGED page
     \/ Succeed(i)
  /\ wallet' \in {wallet, Scanned(Active)}
  /\ UNCHANGED <<currency, world, known, fiat, options, form, requests, shown, sent, moves>>

\* addOptimisticPending() and the two scans, whose failures are swallowed.
Recorded(i) ==
  /\ attempts[i].pc = "record"
  /\ Succeed(i)
  /\ wallet' \in {wallet, Scanned(Active)}
  /\ UNCHANGED <<currency, world, known, fiat, options, form, requests, shown, sent, moves>>

-----------------------------------------------------------------------------
(* What else happens.                                                      *)

\* A block, with some of the transactions that wait for one.
NewBlock(cs) ==
  /\ MayMove
  /\ world' = [world EXCEPT !.tip = @ + 1,
                  !.coins = {IF c \in cs THEN [c EXCEPT !.height = world.tip + 1] ELSE c : c \in @}]
  /\ moves' = moves - 1
  /\ UNCHANGED <<currency, wallet, popup, attempts, sent>>

DepositArrives ==
  /\ MayMove /\ currency = "btc" /\ \A c \in world.coins : c.id # Deposit.id
  /\ world' = [world EXCEPT !.coins = @ \cup {Deposit}]
  /\ moves' = moves - 1
  /\ UNCHANGED <<currency, wallet, popup, attempts, sent>>

\* Ether or tokens arrive at an account, or are spent by it elsewhere.
EtherMoves(a) ==
  /\ MayMove /\ currency # "btc"
  /\ \/ world' = [world EXCEPT !.ether[a].wei = @ + 7]
     \/ world' = [world EXCEPT !.ether[a].wei = @ \div 2, !.ether[a].count = @ + 1]
  /\ moves' = moves - 1
  /\ UNCHANGED <<currency, wallet, popup, attempts, sent>>

Scan(a) ==
  /\ MayMove /\ currency = "btc" /\ wallet # Scanned(a)
  /\ wallet' = Scanned(a)
  /\ moves' = moves - 1
  /\ UNCHANGED <<currency, world, popup, attempts, sent>>

\* From another window of the wallet.
SwitchAccount(a) ==
  /\ MayMove /\ a # Active /\ ~wallet.locked
  /\ wallet' = [wallet EXCEPT !.active = a]
  /\ moves' = moves - 1
  /\ UNCHANGED <<currency, world, popup, attempts, sent>>

Lock ==
  /\ MayMove /\ ~wallet.locked
  /\ wallet' = [wallet EXCEPT !.locked = TRUE]
  /\ moves' = moves - 1
  /\ UNCHANGED <<currency, world, popup, attempts, sent>>

AttemptStep(i) ==
  \/ Verified(i) \/ Build(i) \/ Sign(i) \/ Populate(i) \/ DeliverBitcoin(i) \/ DeliverEthereum(i)
  \/ Answered(i) \/ TimesOut(i) \/ Recorded(i)

Calculated(q) == MaxArrives(q) \/ MaxFails(q)

Next ==
  \/ ShowBalance \/ OpenOptions \/ FeesArrive \/ FiatRateArrives
  \/ \E n \in Amounts : TypeAmount(n)
  \/ \E n \in FiatAmounts : TypeFiat(n)
  \/ PressMax
  \/ \E k \in 1..3 : SelectFee(k)
  \/ \E q \in requests : Calculated(q)
  \/ OpenPreview
  \/ \E i \in 1..MaxAttempts : Confirm(i) \/ AttemptStep(i) \/ AnsweredOddly(i) \/ ConnectionLost(i)
  \/ WorkerDies
  \/ \E cs \in SUBSET {c \in world.coins : c.height = 0} : NewBlock(cs)
  \/ DepositArrives
  \/ \E a \in Accounts : EtherMoves(a) \/ Scan(a) \/ SwitchAccount(a)
  \/ Lock

Spec == Init /\ [][Next]_vars

-----------------------------------------------------------------------------
(* Properties.                                                             *)

\* The types of the state; no calculation is newer than the counter of runMaxSend.
TypeOK ==
  /\ page \in {"send", "options", "preview", "status"}
  /\ known \in [asset : Int, gas : Int] /\ fiat \in Nat
  /\ Len(options) \in {0, 3}
  /\ form.selected \in 1..3 /\ form.ref \in Nat /\ form.edited \in {"asset", "usd"}
  /\ \A q \in requests : q.id <= form.ref
  /\ world.coins \subseteq CoinRecords
  /\ \A a \in Accounts : world.ether[a].wei >= 0 /\ world.ether[a].tokens >= 0
  /\ screen \in [confirming : BOOLEAN, error : {"", "password", "insufficient", "dust", "fee", "max changed", "went wrong"}]
  /\ moves \in 0..MaxMoves

\* What Bitcoin's speeds may cost if the providers that answer have theirs in order.
InOrder == {r \in RateAnswers : r.slow <= r.medium /\ r.medium <= r.fast}
OfferedInOrder == {BitcoinTiers(ReliableRates(answers), a) : answers \in SeqOf(InOrder, 3), a \in Accounts}

\* Whichever providers fail and however the medians mix the others' rates, a faster speed is
\* never cheaper if each of the others has its own in order (which nothing checks: with one
\* that does not, it may be); and every Ethereum tier that is offered is one the adapter will
\* send: the tip fits under the cap, and the cap pays for the block it was estimated from.
FeesAreUsable ==
  /\ options # <<>> =>
       /\ currency # "btc" \/ options \in OfferedInOrder =>
            \A i \in 1..2 : options[i].rate <= options[i + 1].rate /\ options[i].fee <= options[i + 1].fee
       /\ \A i \in 1..3 : currency # "btc" => Overridable(options[i]) /\ options[i].cap >= options[i].rate
  /\ \A i \in 1..MaxAttempts : attempts[i].error # "options"

\* SendPreview never shows a mixture: the speeds are usable, a maximum and its fee are those
\* calculated for the selected one and not for an earlier, and the fiat value is that of the
\* amount.  (The counter of runMaxSend, what
\* handleFeeSelect clears, and the effect that couples the fields.)
PreviewIsCoherent ==
  /\ TypeOK /\ FeesAreUsable
  /\ page \in {"preview", "status"} =>
       /\ shown.max => shown.netted = shown.selected
       /\ shown.usd # Unknown => \E rate \in FiatRates : shown.amount = shown.usd \div rate
       /\ shown.max /\ currency = "btc" => Sum(shown.basis[3]) = shown.amount + shown.fee

\* A Bitcoin payment spends coins of one account only, and its change returns to that account
\* even when the active account changes while the payment is built; nothing is lost in the
\* arithmetic, the change is never dust, and the fee pays at least the selected rate.
SpendsOwnCoins ==
  \A t \in sent : currency = "btc" =>
    /\ t.inputs # {} /\ \A c \in t.inputs : c.owner = t.from
    /\ t.change = 0 \/ t.change >= Dust
    /\ t.fee >= Sized(shown.tier.rate, t.from, Cardinality(t.inputs), t.change > 0)
    /\ t.fee < Sized(shown.tier.rate, t.from, Cardinality(t.inputs), TRUE) + Dust

\* Whatever happened since the preview - coins arrived, were spent or were left out, another
\* account became the active one - what the network takes is what was confirmed: coins of the
\* account that pays, the amount to the unit, and a fee that is, for a maximum, what the
\* selected rate asks for the coins swept and no unit more, and for Ethereum never above the
\* one that was shown.
PaysWhatWasConfirmed ==
  /\ SpendsOwnCoins
  /\ \A t \in sent :
       /\ t.amount = shown.amount
       /\ shown.max /\ currency = "btc" => t.fee = Sized(shown.tier.rate, t.from, Cardinality(t.inputs), FALSE)
       /\ currency # "btc" => t.fee <= shown.fee

\* The maximum that was calculated can be sent: it is only refused for want of funds, or
\* because it changed, when the coins or the balance it was calculated from did change.
\* (The comment of estimateMaxSend: netting the fee any other way gets the send bounced.)
\* And getBalance() and sweepableUtxos() agree on which of the stored coins can be spent.
MaxStands ==
  /\ \A a \in Accounts : Sum(Sweepable(wallet.cache[a])) = Confirmed(wallet.cache[a])
  /\ \A i \in 1..MaxAttempts :
       (shown.max /\ currency # "usdt" /\ attempts[i].pc \in {"refused", "failed"}
                  /\ attempts[i].error \in {"funds", "max changed"})
         => attempts[i].basis # shown.basis

\* A failed confirmation has sent nothing unless the answer to its broadcast was lost - it
\* timed out, or the connection or the worker went - or was neither an error nor a hash: every
\* other error is safe to try again, and so are all the texts SendPreview has for a reason -
\* wrong password, too little money, dust, a maximum that changed - though they are chosen by
\* the words of the error (those of an answer that is neither are the server's own).  SendStatus is only reached by a payment the network has taken.
RefusalMeansUnsent ==
  /\ \A i \in 1..MaxAttempts :
       (/\ attempts[i].pc = "failed" /\ attempts[i].error # "unexpected"
        /\ \/ attempts[i].error \notin {"timeout", "lost"}
           \/ attempts[i].seen \in {"password", "insufficient", "dust", "max changed"})
         => \A t \in sent : t.attempt # i
  /\ page = "status" => sent # {}

\* The popup never waits for nobody: while a maximum is being calculated, which disables the
\* page, an answer that will be taken is on its way, and while SendPreview shows a confirmation
\* as running, one is - whichever calls failed before, and when the worker dies.
SomeoneWillAnswer ==
  /\ page = "options" /\ form.loading => \E q \in requests : q.id = form.ref
  /\ screen.confirming => \E i \in 1..MaxAttempts : Running(i)
=============================================================================
