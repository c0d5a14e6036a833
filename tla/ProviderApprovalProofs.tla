----------------------- MODULE ProviderApprovalProofs -----------------------
(***************************************************************************)
(* Proofs about ProviderApproval, for any requests, networks and bounds.   *)
(* That the website gets what the window named, though the handler reads   *)
(* the wallet's list again after the click, rests on how that list moves:  *)
(* within one wallet it only grows, so that what a window once showed is a *)
(* prefix of it, and a new wallet has a greater number.                    *)
(***************************************************************************)
EXTENDS ProviderApproval, FiniteSetTheorems, SequenceTheorems, WellFoundedInduction, TLAPS

AccountRecords == [wallet : Nat, net : Networks, index : Nat]

PageStates == {"idle", "waiting", "left", "data", "rejected", "error"}

Shares == [first : AccountRecords \cup {None}, rest : AccountRecords \cup {None}]

HandlerRecords ==
  [phase : {"none", "sent", "approval", "addresses", "answer", "done"},
   chosen : 1..MaxAccounts \cup {None},
   share : Shares]

PendingStates == {"none", "windowless", "known"}

WindowRecords ==
  [phase : {"none", "failed", "loading", "shown", "error", "closing", "closed", "gone"},
   called : {"no", "yes", "late"}, act : {"none", "yes", "no"}, view : Seq(AccountRecords),
   offered : SUBSET (1..MaxAccounts), chosen : 1..MaxAccounts \cup {None}]

WalletRecords ==
  [number : Nat, vault : BOOLEAN, net : Networks, active : Nat, accounts : Seq(AccountRecords)]

Typed ==
  /\ page \in [Requests -> PageStates]
  /\ handler \in [Requests -> HandlerRecords]
  /\ pending \in [Requests -> PendingStates]
  /\ window \in [Requests -> WindowRecords]

\* The list of accounts is the present wallet's, within its bound.
WalletTyped ==
  /\ wallet \in WalletRecords
  /\ Len(wallet.accounts) <= MaxAccounts /\ wallet.active <= Len(wallet.accounts)
  /\ \A i \in DOMAIN wallet.accounts : wallet.accounts[i].wallet = wallet.number

\* A request's handler and window start fresh, and the request waits in the map exactly
\* while the handler awaits its approval.  (p, h, e and w are the request's page, handler,
\* pending entry and window.)
StartsFresh(p, h, e, w) ==
  /\ p = "idle" => h = NoHandler
  /\ h.phase \in {"none", "sent"} => w.phase = "none"
  /\ e # "none" <=> h.phase = "approval"

\* What the user may pick was shown, and a window closed by hand is a refusal.
WindowIsHonest(w) ==
  /\ w.offered \subseteq DOMAIN w.view /\ w.chosen \in w.offered \cup {None}
  /\ w.phase = "closed" => w.act # "none"

\* Addresses are collected only for a user who said yes, in a window that has closed.
OnlyAfterYes(h, w) ==
  IF h.phase \in {"addresses", "answer"}
    THEN /\ w.act = "yes" /\ h.chosen \in DOMAIN w.view
         /\ w.phase \in {"closing", "closed", "gone"}
    ELSE h.share = NoShare

\* What a window showed is of an earlier wallet, or of one that has been removed, or is
\* the beginning of the present list.
SeenIsPrefix(view) ==
  view # <<>> =>
    \/ view[1].wallet < wallet.number
    \/ view[1].wallet = wallet.number /\ wallet.accounts = <<>>
    \/ /\ view[1].wallet = wallet.number /\ Len(view) <= Len(wallet.accounts)
       /\ \A i \in 1..Len(view) : view[i] = wallet.accounts[i]

\* A share is of the account that the window named, or of a wallet made since.
ShareIsOfView(h, w) ==
  \A part \in {h.share.first, h.share.rest} \ {None} :
    part = w.view[h.chosen] \/ part.wallet > w.view[1].wallet

RequestOK(p, h, e, w) ==
  /\ StartsFresh(p, h, e, w) /\ WindowIsHonest(w) /\ OnlyAfterYes(h, w)
  /\ SeenIsPrefix(w.view) /\ ShareIsOfView(h, w)

RequestsOK == \A r \in Requests : RequestOK(page[r], handler[r], pending[r], window[r])

IInv == Typed /\ WalletTyped /\ RequestsOK

USE ProviderAssumption

-----------------------------------------------------------------------------
(* The wallet's list.                                                      *)

\* What CHOOSE i \in S : \A j \in S : i <= j picks: every nonempty set of naturals has a
\* least element.
LEMMA LeastElement ==
  ASSUME NEW S \in SUBSET Nat, S # {}
  PROVE  \E i \in S : \A j \in S : i <= j
<1> DEFINE R == {p \in Nat \X Nat : p[1] < p[2]}
<1>1. IsWellFoundedOn(R, Nat)
  BY NatLessThanWellFounded, Zenon DEF OpToRel
<1>2. PICK i \in S : \A j \in S : ~(<<j, i>> \in R)
  <2> HIDE DEF R
  <2> QED
    BY <1>1, WFMin
<1>3. \A j \in S : ~(j < i)
  BY <1>2
<1>4. QED
  BY <1>3

\* A new account is numbered by the accounts that are there on its network.
LEMMA NewAccountIsRecord ==
  ASSUME WalletTyped, NEW net \in Networks
  PROVE  NewAccount(net) \in AccountRecords /\ NewAccount(net).wallet = wallet.number
<1> DEFINE there == {i \in DOMAIN wallet.accounts : wallet.accounts[i].net = net}
<1>1. /\ DOMAIN wallet.accounts = 1..Len(wallet.accounts)
      /\ Len(wallet.accounts) \in Nat
  BY LenProperties DEF WalletTyped, WalletRecords
<1>2. IsFiniteSet(DOMAIN wallet.accounts)
  BY <1>1, FS_Interval
<1>3. Cardinality(there) \in Nat
  <2>1. IsFiniteSet(there)
    BY <1>2, FS_Subset
  <2>2. QED
    BY <2>1, FS_CardinalityType
<1>4. QED
  BY <1>3 DEF NewAccount, WalletTyped, AccountRecords, WalletRecords

\* The accounts read by their list index, and those that can be connected.
LEMMA AccountsOfTheList ==
  ASSUME WalletTyped
  PROVE  /\ Len(wallet.accounts) \in 0..MaxAccounts
         /\ DOMAIN wallet.accounts = 1..Len(wallet.accounts)
         /\ \A i \in DOMAIN wallet.accounts : wallet.accounts[i] \in AccountRecords
         /\ Connectable \in SUBSET (1..Len(wallet.accounts))
         /\ Connectable \in SUBSET (1..MaxAccounts)
         /\ \A i : Account(i) \in AccountRecords \cup {None}
<1>1. /\ DOMAIN wallet.accounts = 1..Len(wallet.accounts)
      /\ Len(wallet.accounts) \in Nat
      /\ Len(wallet.accounts) <= MaxAccounts
  BY LenProperties DEF WalletTyped, WalletRecords
<1>2. \A i \in DOMAIN wallet.accounts : wallet.accounts[i] \in AccountRecords
  BY <1>1, ElementOfSeq DEF WalletTyped, WalletRecords
<1>3. QED
  BY <1>1, <1>2 DEF Connectable, Account

\* A list that grows keeps the windows' views as its beginning.
LEMMA AppendKeepsViews ==
  ASSUME IInv, NEW net \in Networks, wallet.accounts # <<>>,
         wallet'.number = wallet.number,
         wallet'.accounts = Append(wallet.accounts, NewAccount(net)),
         UNCHANGED window
  PROVE  /\ \A r \in Requests : SeenIsPrefix(window[r].view)'
         /\ wallet'.accounts \in Seq(AccountRecords)
         /\ Len(wallet'.accounts) = Len(wallet.accounts) + 1
         /\ \A i \in DOMAIN wallet'.accounts : wallet'.accounts[i].wallet = wallet.number
<1> DEFINE new == NewAccount(net)
           old == wallet.accounts
<1>1. new \in AccountRecords /\ new.wallet = wallet.number /\ old \in Seq(AccountRecords)
  BY NewAccountIsRecord DEF IInv, WalletTyped, WalletRecords
<1>2. /\ Append(old, new) \in Seq(AccountRecords)
      /\ Len(Append(old, new)) = Len(old) + 1
      /\ \A i \in 1..Len(old) : Append(old, new)[i] = old[i]
      /\ Append(old, new)[Len(old) + 1] = new
      /\ DOMAIN Append(old, new) = 1..Len(old) + 1
  BY <1>1, AppendProperties, LenProperties
<1>3. Len(old) \in Nat /\ DOMAIN old = 1..Len(old)
  BY <1>1, LenProperties
<1>4. \A i \in DOMAIN Append(old, new) : Append(old, new)[i].wallet = wallet.number
  BY <1>1, <1>2, <1>3 DEF IInv, WalletTyped
<1>5. \A r \in Requests : SeenIsPrefix(window[r].view)'
  <2>1. SUFFICES ASSUME NEW r \in Requests PROVE SeenIsPrefix(window[r].view)'
    OBVIOUS
  <2>2. SeenIsPrefix(window[r].view) /\ window[r].view \in Seq(AccountRecords)
    BY DEF IInv, RequestsOK, RequestOK, Typed, WindowRecords
  <2>3. Len(window[r].view) \in Nat
    BY <2>2, LenProperties
  <2>4. ASSUME old # <<>>, Len(window[r].view) <= Len(old),
               \A i \in 1..Len(window[r].view) : window[r].view[i] = old[i]
        PROVE  /\ Len(window[r].view) <= Len(Append(old, new))
               /\ \A i \in 1..Len(window[r].view) : window[r].view[i] = Append(old, new)[i]
    BY <1>2, <1>3, <2>3, <2>4
  <2>5. QED
    BY <2>2, <2>4 DEF SeenIsPrefix
<1>6. QED
  BY <1>2, <1>4, <1>5

-----------------------------------------------------------------------------
(* The invariant is inductive.                                             *)

\* The initial state satisfies the inductive invariant.
LEMMA InitIInv == Init => IInv
<1> SUFFICES ASSUME Init PROVE IInv
  OBVIOUS
<1> DEFINE a == [wallet |-> 1, index |-> 0, net |-> Mainnet]
<1>1. a \in AccountRecords /\ a.wallet = 1
  BY DEF AccountRecords
<1>2. /\ <<a>> \in Seq(AccountRecords) /\ Len(<<a>>) = 1 /\ DOMAIN <<a>> = {1}
      /\ <<a>>[1] = a
  <2> HIDE DEF a
  <2> QED
    BY <1>1
<1>3. << >> \in Seq(AccountRecords)
  BY EmptySeq
<1>4. NoHandler \in HandlerRecords /\ NoWindow \in WindowRecords
  BY <1>3 DEF NoHandler, NoWindow, NoShare, HandlerRecords, Shares, WindowRecords
<1>5. Typed
  BY <1>4 DEF Init, Typed, PageStates, PendingStates
<1>6. WalletTyped
  <2>1. wallet = [number |-> 1, vault |-> TRUE, net |-> Mainnet, active |-> 1, accounts |-> <<a>>]
    BY DEF Init
  <2> HIDE DEF a
  <2> QED
    BY <1>1, <1>2, <2>1 DEF WalletTyped, WalletRecords
<1>7. RequestOK("idle", NoHandler, "none", NoWindow)
  BY DEF RequestOK, StartsFresh, WindowIsHonest, OnlyAfterYes, SeenIsPrefix, ShareIsOfView,
         NoHandler, NoWindow, NoShare
<1>8. RequestsOK
  BY <1>7 DEF Init, RequestsOK
<1>9. QED
  BY <1>5, <1>6, <1>8 DEF IInv

\* A step of one request, whose state is then p, h, e and w.
LEMMA OneRequestIInv ==
  ASSUME IInv, UNCHANGED wallet, NEW r \in Requests,
         NEW p \in PageStates, page' = [page EXCEPT ![r] = p],
         NEW h \in HandlerRecords, handler' = [handler EXCEPT ![r] = h],
         NEW e \in PendingStates, pending' = [pending EXCEPT ![r] = e],
         NEW w \in WindowRecords, window' = [window EXCEPT ![r] = w],
         RequestOK(p, h, e, w)
  PROVE  IInv'
<1>1. Typed'
  BY DEF IInv, Typed
<1>2. WalletTyped'
  BY DEF IInv, WalletTyped
<1>3. ASSUME NEW q \in Requests
      PROVE  RequestOK(page[q], handler[q], pending[q], window[q])'
  <2>1. CASE q = r
    <3>1. page'[q] = p /\ handler'[q] = h /\ pending'[q] = e /\ window'[q] = w
      BY <2>1 DEF IInv, Typed
    <3>2. QED
      BY <3>1 DEF RequestOK, StartsFresh, WindowIsHonest, OnlyAfterYes, SeenIsPrefix, ShareIsOfView
  <2>2. CASE q # r
    <3>1. /\ page'[q] = page[q] /\ handler'[q] = handler[q]
          /\ pending'[q] = pending[q] /\ window'[q] = window[q]
      BY <2>2 DEF IInv, Typed
    <3>2. RequestOK(page[q], handler[q], pending[q], window[q])
      BY DEF IInv, RequestsOK
    <3>3. QED
      BY <3>1, <3>2
      DEF RequestOK, StartsFresh, WindowIsHonest, OnlyAfterYes, SeenIsPrefix, ShareIsOfView
  <2>3. QED
    BY <2>1, <2>2
<1>4. QED
  BY <1>1, <1>2, <1>3 DEF IInv, RequestsOK

\* The state of one request, and what it means that a step leaves it alone.
LEMMA RequestState ==
  ASSUME IInv, NEW r \in Requests
  PROVE  /\ page[r] \in PageStates /\ page = [page EXCEPT ![r] = page[r]]
         /\ handler[r] \in HandlerRecords /\ handler = [handler EXCEPT ![r] = handler[r]]
         /\ pending[r] \in PendingStates /\ pending = [pending EXCEPT ![r] = pending[r]]
         /\ window[r] \in WindowRecords /\ window = [window EXCEPT ![r] = window[r]]
         /\ RequestOK(page[r], handler[r], pending[r], window[r])
BY DEF IInv, Typed, RequestsOK

\* A request made, and a page left.
LEMMA PageIInv ==
  ASSUME IInv, NEW r \in Requests, Request(r) \/ LeavePage(r)
  PROVE  IInv'
<1> USE RequestState
<1>1. CASE Request(r)
  <2> DEFINE h == [handler[r] EXCEPT !.phase = "sent"]
  <2>1. h \in HandlerRecords
    BY DEF HandlerRecords
  <2>2. RequestOK("waiting", h, pending[r], window[r])
    BY <1>1 DEF Request, RequestOK, StartsFresh, OnlyAfterYes, ShareIsOfView, NoHandler
  <2>3. /\ page' = [page EXCEPT ![r] = "waiting"] /\ handler' = [handler EXCEPT ![r] = h]
        /\ UNCHANGED <<pending, window, wallet>>
    BY <1>1 DEF Request
  <2> HIDE DEF h
  <2>4. QED
    BY <2>1, <2>2, <2>3, OneRequestIInv DEF PageStates
<1>2. CASE LeavePage(r)
  <2>1. RequestOK("left", handler[r], pending[r], window[r])
    BY DEF RequestOK, StartsFresh
  <2>2. /\ page' = [page EXCEPT ![r] = "left"]
        /\ UNCHANGED <<handler, pending, window, wallet>>
    BY <1>2 DEF LeavePage
  <2>3. QED
    BY <2>1, <2>2, OneRequestIInv DEF PageStates
<1>3. QED
  BY <1>1, <1>2

\* A response of the worker: the page takes it if it is still waiting.
LEMMA SettleState ==
  ASSUME IInv, NEW r \in Requests, NEW what \in {"data", "rejected", "error"}
  PROVE  \E p \in PageStates :
           /\ Settle(r, what) = [page EXCEPT ![r] = p]
           /\ p = IF page[r] = "waiting" THEN what ELSE page[r]
BY DEF IInv, Typed, Settle, PageStates

\* handle().
LEMMA HandleIInv ==
  ASSUME IInv, NEW r \in Requests, Handle(r)
  PROVE  IInv'
<1> USE RequestState
<1>1. CASE r \in Handled /\ wallet.vault
  <2>1. PICK phase \in {"loading", "failed"} : window' = [window EXCEPT ![r].phase = phase]
    BY <1>1 DEF Handle
  <2> DEFINE h == [handler[r] EXCEPT !.phase = "approval"]
             w == [window[r] EXCEPT !.phase = phase]
  <2>2. h \in HandlerRecords
    BY DEF HandlerRecords
  <2>3. w \in WindowRecords
    BY DEF WindowRecords
  <2>4. /\ h.phase = "approval" /\ h.share = handler[r].share /\ h.chosen = handler[r].chosen
        /\ w.phase = phase /\ w.act = window[r].act /\ w.view = window[r].view
        /\ w.offered = window[r].offered /\ w.chosen = window[r].chosen
    BY DEF HandlerRecords, WindowRecords
  <2>5. handler' = [handler EXCEPT ![r] = h] /\ window' = [window EXCEPT ![r] = w]
    BY <1>1, <2>1 DEF Handle
  <2> HIDE DEF h, w
  <2>6. RequestOK(page[r], h, "windowless", w)
    BY <2>4
    DEF Handle, RequestOK, StartsFresh, WindowIsHonest, OnlyAfterYes, ShareIsOfView, NoHandler
  <2>7. QED
    BY <1>1, <2>2, <2>3, <2>5, <2>6, OneRequestIInv DEF Handle, PendingStates
<1>2. CASE ~(r \in Handled /\ wallet.vault)
  <2> DEFINE h == [handler[r] EXCEPT !.phase = "done"]
  <2>1. h \in HandlerRecords
    BY DEF HandlerRecords
  <2>2. h.phase = "done" /\ h.share = handler[r].share /\ h.chosen = handler[r].chosen
    BY DEF HandlerRecords
  <2>3. PICK p \in PageStates : /\ page' = [page EXCEPT ![r] = p]
                                /\ p = "idle" => page[r] = "idle"
    BY <1>2, SettleState DEF Handle
  <2>4. handler' = [handler EXCEPT ![r] = h]
    BY <1>2 DEF Handle
  <2> HIDE DEF h
  <2>5. RequestOK(p, h, pending[r], window[r])
    BY <2>2, <2>3
    DEF Handle, RequestOK, StartsFresh, OnlyAfterYes, ShareIsOfView, NoHandler
  <2>6. UNCHANGED <<pending, window, wallet>>
    BY <1>2 DEF Handle
  <2>7. QED
    BY <2>1, <2>3, <2>4, <2>5, <2>6, OneRequestIInv
<1>3. QED
  BY <1>1, <1>2

\* The window's id is entered.
LEMMA CreateCallbackIInv ==
  ASSUME IInv, NEW r \in Requests, CreateCallback(r)
  PROVE  IInv'
<1> USE RequestState
<1> DEFINE w == [window[r] EXCEPT !.called = IF window[r].phase = "gone" THEN "late" ELSE "yes"]
           e == IF pending[r] = "windowless" THEN "known" ELSE pending[r]
<1>1. w \in WindowRecords
  BY DEF WindowRecords
<1>2. /\ w.phase = window[r].phase /\ w.act = window[r].act /\ w.view = window[r].view
      /\ w.offered = window[r].offered /\ w.chosen = window[r].chosen
  BY DEF WindowRecords
<1>3. e \in PendingStates /\ (e = "none" <=> pending[r] = "none")
  BY DEF PendingStates
<1>4. /\ window' = [window EXCEPT ![r] = w] /\ pending' = [pending EXCEPT ![r] = e]
      /\ UNCHANGED <<page, handler, wallet>>
  BY DEF CreateCallback
<1> HIDE DEF w, e
<1>5. RequestOK(page[r], handler[r], e, w)
  BY <1>2, <1>3 DEF RequestOK, StartsFresh, WindowIsHonest, OnlyAfterYes, ShareIsOfView
<1>6. QED
  BY <1>1, <1>3, <1>4, <1>5, OneRequestIInv

\* The record of a window that shows a list.
LEMMA ShownWindow ==
  ASSUME NEW w \in WindowRecords, NEW view \in Seq(AccountRecords),
         NEW offered \in SUBSET (1..MaxAccounts), NEW chosen \in 1..MaxAccounts \cup {None}
  PROVE  [w EXCEPT !.phase = "shown", !.view = view, !.offered = offered, !.chosen = chosen]
           \in WindowRecords
BY DEF WindowRecords

\* The window shows the list of the moment.
LEMMA ShowIInv ==
  ASSUME IInv, NEW r \in Requests, Show(r)
  PROVE  IInv'
<1> USE RequestState
<1>1. CASE pending[r] = "none"
  <2> DEFINE w == [window[r] EXCEPT !.phase = "error"]
  <2>1. w \in WindowRecords
    BY DEF WindowRecords
  <2>2. /\ w.phase = "error" /\ w.act = window[r].act /\ w.view = window[r].view
        /\ w.offered = window[r].offered /\ w.chosen = window[r].chosen
    BY DEF WindowRecords
  <2>3. window' = [window EXCEPT ![r] = w] /\ UNCHANGED <<page, handler, pending, wallet>>
    BY <1>1 DEF Show
  <2> HIDE DEF w
  <2>4. RequestOK(page[r], handler[r], pending[r], w)
    BY <2>2 DEF Show, RequestOK, StartsFresh, WindowIsHonest, OnlyAfterYes, ShareIsOfView
  <2>5. QED
    BY <2>1, <2>3, <2>4, OneRequestIInv
<1>2. CASE pending[r] # "none"
  <2> DEFINE c == IF wallet.active \in Connectable THEN wallet.active
                  ELSE IF Connectable = {} THEN None
                  ELSE CHOOSE i \in Connectable : \A j \in Connectable : i <= j
             w == [window[r] EXCEPT !.phase = "shown", !.view = wallet.accounts,
                                    !.offered = Connectable, !.chosen = c]
  <2>1. /\ WalletTyped
        /\ Connectable \in SUBSET DOMAIN wallet.accounts
        /\ Connectable \in SUBSET (1..MaxAccounts)
    BY AccountsOfTheList DEF IInv
  <2>2. c \in Connectable \cup {None}
    <3>1. Connectable \in SUBSET Nat
      BY <2>1
    <3>2. QED
      BY <3>1, LeastElement
  <2>3. window' = [window EXCEPT ![r] = w] /\ UNCHANGED <<page, handler, pending, wallet>>
    BY <1>2 DEF Show
  <2> HIDE DEF c
  <2>4. w \in WindowRecords
    <3>1. wallet.accounts \in Seq(AccountRecords) /\ c \in 1..MaxAccounts \cup {None}
      BY <2>1, <2>2 DEF WalletTyped, WalletRecords
    <3>2. QED
      BY <2>1, <3>1, ShownWindow
  <2>5. /\ w.phase = "shown" /\ w.act = window[r].act /\ w.view = wallet.accounts
        /\ w.offered = Connectable /\ w.chosen = c
    BY DEF WindowRecords
  <2> HIDE DEF w
  <2>6. SeenIsPrefix(wallet.accounts)
    <3>1. wallet.accounts \in Seq(AccountRecords)
      BY <2>1 DEF WalletTyped, WalletRecords
    <3>2. wallet.accounts # <<>> => 1 \in DOMAIN wallet.accounts
      BY <3>1, EmptySeq, LenProperties
    <3>3. QED
      BY <2>1, <3>1, <3>2, LenProperties DEF SeenIsPrefix, WalletTyped
  <2>7. handler[r].share = NoShare
    BY DEF Show, RequestOK, OnlyAfterYes
  <2>8. RequestOK(page[r], handler[r], pending[r], w)
    BY <2>1, <2>2, <2>5, <2>6, <2>7
    DEF Show, RequestOK, StartsFresh, WindowIsHonest, OnlyAfterYes, ShareIsOfView, NoShare
  <2>9. QED
    BY <2>3, <2>4, <2>8, OneRequestIInv
<1>3. QED
  BY <1>1, <1>2

\* What the user does in the window changes no view, and no yes.
LEMMA UserIInv ==
  ASSUME IInv, NEW r \in Requests, NEW i \in 1..MaxAccounts, NEW act \in {"yes", "no"},
         Pick(r, i) \/ Click(r, act) \/ Close(r)
  PROVE  IInv'
<1> USE RequestState
<1>1. \E w \in WindowRecords :
        /\ window' = [window EXCEPT ![r] = w] /\ w.view = window[r].view
        /\ window[r].act = "yes" => w.act = "yes"
        /\ w.phase # window[r].phase => w.phase = "closed"
        /\ window[r].phase # "none"
        /\ WindowIsHonest(w)
  <2>1. CASE Pick(r, i)
    <3> DEFINE w == [window[r] EXCEPT !.chosen = i]
    <3>1. w \in WindowRecords
      BY DEF WindowRecords
    <3>2. /\ w.phase = "shown" /\ w.act = window[r].act /\ w.view = window[r].view
          /\ w.offered = window[r].offered /\ w.chosen = i
      BY <2>1 DEF WindowRecords, Pick
    <3>3. window' = [window EXCEPT ![r] = w]
      BY <2>1 DEF Pick
    <3> HIDE DEF w
    <3>4. QED
      BY <2>1, <3>1, <3>2, <3>3 DEF Pick, RequestOK, WindowIsHonest
  <2>2. CASE Click(r, act)
    <3> DEFINE w == [window[r] EXCEPT !.act = act]
    <3>1. w \in WindowRecords
      BY DEF WindowRecords
    <3>2. /\ w.phase = "shown" /\ w.act = act /\ w.view = window[r].view
          /\ w.offered = window[r].offered /\ w.chosen = window[r].chosen
      BY <2>2 DEF WindowRecords, Click
    <3>3. window' = [window EXCEPT ![r] = w]
      BY <2>2 DEF Click
    <3> HIDE DEF w
    <3>4. QED
      BY <2>2, <3>1, <3>2, <3>3 DEF Click, RequestOK, WindowIsHonest
  <2>3. CASE Close(r)
    <3> DEFINE w == [Unloaded(r, "closed") EXCEPT !.act = IF @ = "none" THEN "no" ELSE @]
    <3>1. w \in WindowRecords
      BY DEF WindowRecords, Unloaded
    <3>2. /\ w.phase = "closed" /\ w.view = window[r].view
          /\ w.act = IF window[r].act = "none" THEN "no" ELSE window[r].act
          /\ w.offered = {} /\ w.chosen = None
      BY <2>3 DEF WindowRecords, Unloaded
    <3>3. window' = [window EXCEPT ![r] = w]
      BY <2>3 DEF Close
    <3> HIDE DEF w
    <3>4. QED
      BY <2>3, <3>1, <3>2, <3>3 DEF Close, RequestOK, WindowIsHonest
  <2>4. QED
    BY <2>1, <2>2, <2>3
<1>2. PICK w \in WindowRecords :
        /\ window' = [window EXCEPT ![r] = w] /\ w.view = window[r].view
        /\ window[r].act = "yes" => w.act = "yes"
        /\ w.phase # window[r].phase => w.phase = "closed"
        /\ window[r].phase # "none"
        /\ WindowIsHonest(w)
  BY <1>1
<1>3. UNCHANGED <<page, handler, pending, wallet>>
  BY DEF Pick, Click, Close
<1>4. RequestOK(page[r], handler[r], pending[r], w)
  BY <1>2 DEF RequestOK, StartsFresh, OnlyAfterYes, ShareIsOfView
<1>5. QED
  BY <1>2, <1>3, <1>4, OneRequestIInv

\* The account that the list holds now at an index of a view: the one that was seen
\* there, or one of a wallet made since.
LEMMA AccountOfView ==
  ASSUME WalletTyped, NEW view \in Seq(AccountRecords), SeenIsPrefix(view),
         NEW i \in DOMAIN view
  PROVE  Account(i) = None \/ Account(i) = view[i] \/ Account(i).wallet > view[1].wallet
<1>1. DOMAIN view = 1..Len(view) /\ Len(view) \in Nat
  BY LenProperties
<1>2. view # <<>> /\ 1 \in 1..Len(view) /\ i \in 1..Len(view)
  BY <1>1, EmptySeq
<1>3. view[1] \in AccountRecords
  BY <1>1, <1>2, ElementOfSeq
<1>4. SUFFICES ASSUME i \in DOMAIN wallet.accounts, Account(i) = wallet.accounts[i]
               PROVE  Account(i) = view[i] \/ Account(i).wallet > view[1].wallet
  BY DEF Account
<1>5. wallet.accounts # <<>>
  BY <1>4, EmptySeq
<1>6. wallet.accounts[i].wallet = wallet.number /\ wallet.number \in Nat
  BY <1>4 DEF WalletTyped, WalletRecords
<1>7. CASE view[1].wallet < wallet.number
  BY <1>3, <1>4, <1>6, <1>7 DEF AccountRecords
<1>8. CASE \A j \in 1..Len(view) : view[j] = wallet.accounts[j]
  BY <1>2, <1>4, <1>8
<1>9. QED
  BY <1>2, <1>5, <1>7, <1>8 DEF SeenIsPrefix

LEMMA HandlerAnswers ==
  ASSUME NEW k \in HandlerRecords, NEW a \in AccountRecords \cup {None}
  PROVE  [k EXCEPT !.phase = "answer", !.share.rest = a] \in HandlerRecords
<1> DEFINE share == [k.share EXCEPT !.rest = a]
<1>1. share \in Shares
  BY DEF HandlerRecords, Shares
<1>2. [k EXCEPT !.phase = "answer", !.share = share] = [k EXCEPT !.phase = "answer", !.share.rest = a]
  BY DEF HandlerRecords
<1> HIDE DEF share
<1>3. [k EXCEPT !.phase = "answer", !.share = share] \in HandlerRecords
  BY <1>1 DEF HandlerRecords
<1>4. QED
  BY <1>2, <1>3

\* The handler goes on after the stored histories, and answers.
LEMMA AnswerIInv ==
  ASSUME IInv, NEW r \in Requests, CollectRest(r) \/ Answer(r)
  PROVE  IInv'
<1> USE RequestState
<1>1. CASE CollectRest(r)
  <2> DEFINE chosen == handler[r].chosen
             h == [handler[r] EXCEPT !.phase = "answer", !.share.rest = Account(chosen)]
  <2>1. chosen \in DOMAIN window[r].view /\ window[r].view \in Seq(AccountRecords)
    BY <1>1 DEF CollectRest, RequestOK, OnlyAfterYes, WindowRecords
  <2>2. Account(chosen) \in AccountRecords \cup {None}
    BY AccountsOfTheList DEF IInv
  <2>3. h \in HandlerRecords
    BY <2>2, HandlerAnswers
  <2>4. /\ h.phase = "answer" /\ h.chosen = chosen
        /\ h.share.first = handler[r].share.first /\ h.share.rest = Account(chosen)
    BY DEF HandlerRecords, Shares
  <2>5. handler' = [handler EXCEPT ![r] = h] /\ UNCHANGED <<page, pending, window, wallet>>
    BY <1>1 DEF CollectRest
  <2>6. \/ Account(chosen) = None \/ Account(chosen) = window[r].view[chosen]
        \/ Account(chosen).wallet > window[r].view[1].wallet
    BY <2>1, AccountOfView DEF IInv, RequestOK
  <2> HIDE DEF h
  <2>7. RequestOK(page[r], h, pending[r], window[r])
    <3>1. ShareIsOfView(h, window[r])
      BY <2>4, <2>6 DEF RequestOK, ShareIsOfView
    <3>2. QED
      BY <1>1, <2>4, <3>1 DEF CollectRest, RequestOK, StartsFresh, OnlyAfterYes, NoHandler
  <2>8. QED
    BY <2>3, <2>5, <2>7, OneRequestIInv
<1>2. CASE Answer(r)
  <2> DEFINE h == [NoHandler EXCEPT !.phase = "done"]
  <2>1. h \in HandlerRecords
    BY DEF HandlerRecords, Shares, NoHandler, NoShare
  <2>2. h.phase = "done" /\ h.share = NoShare
    BY DEF NoHandler
  <2>3. PICK p \in PageStates : /\ page' = [page EXCEPT ![r] = p]
                                /\ p = "idle" => page[r] = "idle"
    BY <1>2, SettleState DEF Answer
  <2>4. handler' = [handler EXCEPT ![r] = h] /\ UNCHANGED <<pending, window, wallet>>
    BY <1>2 DEF Answer
  <2>5. RequestOK(p, h, pending[r], window[r])
    <3>1. handler[r].phase = "answer"
      BY <1>2 DEF Answer
    <3> HIDE DEF h
    <3>2. QED
      BY <2>2, <2>3, <3>1
      DEF RequestOK, StartsFresh, OnlyAfterYes, ShareIsOfView, NoHandler, NoShare
  <2>6. QED
    BY <2>1, <2>3, <2>4, <2>5, OneRequestIInv
<1>3. QED
  BY <1>1, <1>2

\* An approval leaves the map: its handler starts to collect, or answers that it was
\* rejected.
LEMMA LeavesTheMap ==
  ASSUME IInv, NEW r \in Requests, pending[r] # "none",
         NEW w \in WindowRecords, window' = [window EXCEPT ![r] = w], WindowIsHonest(w),
         w.view = window[r].view, w.act = window[r].act,
         w.phase \in {"closing", "gone"},
         pending' = [pending EXCEPT ![r] = "none"], UNCHANGED wallet,
         \/ Rejected(r)
         \/ window[r].act = "yes" /\ window[r].chosen \in Connectable /\ Collect(r)
  PROVE  IInv'
<1> USE RequestState
<1>1. handler[r].phase = "approval" /\ handler[r].share = NoShare /\ page[r] # "idle"
  BY DEF RequestOK, StartsFresh, OnlyAfterYes, NoHandler
<1>2. "none" \in PendingStates
  BY DEF PendingStates
<1>3. CASE Rejected(r)
  <2> DEFINE h == [handler[r] EXCEPT !.phase = "done"]
  <2>1. h \in HandlerRecords /\ h.phase = "done" /\ h.share = handler[r].share
    BY DEF HandlerRecords
  <2>2. PICK p \in PageStates : page' = [page EXCEPT ![r] = p] /\ p # "idle"
    BY <1>1, <1>3, SettleState DEF Rejected
  <2>3. handler' = [handler EXCEPT ![r] = h]
    BY <1>3 DEF Rejected
  <2> HIDE DEF h
  <2>4. RequestOK(p, h, "none", w)
    BY <1>1, <2>1, <2>2 DEF RequestOK, StartsFresh, OnlyAfterYes, ShareIsOfView, NoShare
  <2>5. QED
    BY <1>2, <2>1, <2>2, <2>3, <2>4, OneRequestIInv
<1>4. CASE window[r].act = "yes" /\ window[r].chosen \in Connectable /\ Collect(r)
  <2> DEFINE c == window[r].chosen
             h == [phase |-> IF r \in XpubOnly THEN "answer" ELSE "addresses", chosen |-> c,
                   share |-> [NoShare EXCEPT !.first = Account(c)]]
  <2>1. c \in Nat /\ c \in 1..MaxAccounts /\ Account(c) \in AccountRecords \cup {None}
    BY <1>4, AccountsOfTheList DEF IInv
  <2>2. h \in HandlerRecords
    BY <2>1 DEF HandlerRecords, Shares, NoShare
  <2>3. /\ h.phase \in {"addresses", "answer"} /\ h.chosen = c
        /\ h.share.first = Account(c) /\ h.share.rest = None
    BY DEF NoShare
  <2>4. handler' = [handler EXCEPT ![r] = h] /\ UNCHANGED page
    BY <1>4 DEF Collect
  <2>5. c \in DOMAIN window[r].view /\ window[r].view \in Seq(AccountRecords)
    BY <2>1 DEF RequestOK, WindowIsHonest, WindowRecords
  <2>6. \/ Account(c) = None \/ Account(c) = window[r].view[c]
        \/ Account(c).wallet > window[r].view[1].wallet
    BY <2>5, AccountOfView DEF IInv, RequestOK
  <2> HIDE DEF h
  <2>7. RequestOK(page[r], h, "none", w)
    BY <1>1, <1>4, <2>3, <2>5, <2>6
    DEF RequestOK, StartsFresh, OnlyAfterYes, ShareIsOfView, NoHandler
  <2>8. QED
    BY <1>2, <2>2, <2>4, <2>7, OneRequestIInv
<1>5. QED
  BY <1>3, <1>4

\* The decision is answered, or the closed window's approval rejected.
LEMMA DecisionIInv ==
  ASSUME IInv, NEW r \in Requests, Decided(r) \/ OnRemoved(r)
  PROVE  IInv'
<1> USE RequestState
<1>1. PICK phase \in {"closing", "gone"}, w \in WindowRecords :
        /\ window' = [window EXCEPT ![r] = w]
        /\ w.phase = phase /\ w.view = window[r].view /\ w.act = window[r].act
        /\ WindowIsHonest(w) /\ window[r].phase \in {"shown", "closed"}
  <2>1. CASE Decided(r)
    <3> DEFINE w == Unloaded(r, "closing")
    <3>1. /\ w \in WindowRecords
          /\ w.phase = "closing" /\ w.view = window[r].view /\ w.act = window[r].act
          /\ w.offered = {} /\ w.chosen = None
      BY DEF Unloaded, WindowRecords
    <3>2. window' = [window EXCEPT ![r] = w] /\ window[r].phase = "shown"
      BY <2>1 DEF Decided
    <3> HIDE DEF w
    <3>3. QED
      BY <3>1, <3>2 DEF WindowIsHonest
  <2>2. CASE OnRemoved(r)
    <3> DEFINE w == [window[r] EXCEPT !.phase = "gone"]
    <3>1. /\ w \in WindowRecords
          /\ w.phase = "gone" /\ w.view = window[r].view /\ w.act = window[r].act
          /\ w.offered = window[r].offered /\ w.chosen = window[r].chosen
      BY DEF WindowRecords
    <3>2. window' = [window EXCEPT ![r] = w] /\ window[r].phase = "closed"
      BY <2>2 DEF OnRemoved
    <3> HIDE DEF w
    <3>3. QED
      BY <3>1, <3>2 DEF WindowIsHonest, RequestOK
  <2>3. QED
    BY <2>1, <2>2
<1>2. CASE UNCHANGED <<page, handler, pending>>
  <2>1. RequestOK(page[r], handler[r], pending[r], w)
    BY <1>1 DEF RequestOK, StartsFresh, OnlyAfterYes, ShareIsOfView
  <2>2. UNCHANGED wallet
    BY DEF Decided, OnRemoved
  <2>3. QED
    BY <1>1, <1>2, <2>1, <2>2, OneRequestIInv
<1>3. CASE /\ pending[r] # "none" /\ pending' = [pending EXCEPT ![r] = "none"]
           /\ \/ Rejected(r)
              \/ window[r].act = "yes" /\ window[r].chosen \in Connectable /\ Collect(r)
  <2>1. UNCHANGED wallet
    BY DEF Decided, OnRemoved
  <2>2. QED
    BY <1>1, <1>3, <2>1, LeavesTheMap
<1>4. QED
  BY <1>2, <1>3 DEF Decided, OnRemoved, RejectRemoved, Resolve

\* A step of the wallet leaves the requests alone.
LEMMA WalletStepIInv ==
  ASSUME IInv, UNCHANGED <<page, handler, pending, window>>, WalletTyped',
         \A r \in Requests : SeenIsPrefix(window[r].view)'
  PROVE  IInv'
<1>1. Typed'
  BY DEF IInv, Typed
<1>2. RequestsOK'
  BY DEF IInv, RequestsOK, RequestOK, StartsFresh, WindowIsHonest, OnlyAfterYes, ShareIsOfView
<1>3. QED
  BY <1>1, <1>2 DEF IInv

\* An account is appended to the list and becomes the active one.
LEMMA AppendIInv ==
  ASSUME IInv, NEW net \in Networks, wallet.accounts # <<>>,
         Len(wallet.accounts) < MaxAccounts,
         UNCHANGED <<page, handler, pending, window>>,
         wallet' = [wallet EXCEPT !.net = net, !.active = Len(wallet.accounts) + 1,
                                  !.accounts = Append(wallet.accounts, NewAccount(net))]
  PROVE  IInv'
<1>1. Len(wallet.accounts) \in Nat
  BY AccountsOfTheList DEF IInv
<1>2. /\ wallet'.number = wallet.number /\ wallet'.net = net /\ wallet'.vault = wallet.vault
      /\ wallet'.active = Len(wallet.accounts) + 1
      /\ wallet'.accounts = Append(wallet.accounts, NewAccount(net))
  BY DEF IInv, WalletTyped, WalletRecords
<1>3. /\ \A r \in Requests : SeenIsPrefix(window[r].view)'
      /\ wallet'.accounts \in Seq(AccountRecords)
      /\ Len(wallet'.accounts) = Len(wallet.accounts) + 1
      /\ \A i \in DOMAIN wallet'.accounts : wallet'.accounts[i].wallet = wallet.number
  BY <1>2, AppendKeepsViews
<1>4. wallet' \in WalletRecords
  <2> DEFINE list == Append(wallet.accounts, NewAccount(net))
             active == Len(wallet.accounts) + 1
  <2>1. list \in Seq(AccountRecords) /\ active \in Nat /\ wallet \in WalletRecords
    BY <1>1, <1>2, <1>3 DEF IInv, WalletTyped
  <2>2. wallet' = [wallet EXCEPT !.net = net, !.active = active, !.accounts = list]
    OBVIOUS
  <2> HIDE DEF list, active
  <2>3. QED
    BY <2>1, <2>2 DEF WalletRecords
<1>5. WalletTyped'
  BY <1>1, <1>2, <1>3, <1>4 DEF WalletTyped
<1>6. QED
  BY <1>3, <1>5, WalletStepIInv

\* switchNetwork(): to the first account of the network, or to a new one.
LEMMA SwitchNetworkIInv ==
  ASSUME IInv, NEW net \in Networks, SwitchNetwork(net)
  PROVE  IInv'
<1> DEFINE there == {i \in DOMAIN wallet.accounts : wallet.accounts[i].net = net}
<1>1. UNCHANGED <<page, handler, pending, window>>
  BY DEF SwitchNetwork, Move
<1>2. CASE there = {}
  BY <1>1, <1>2, AppendIInv DEF SwitchNetwork
<1>3. CASE there # {}
  <2> DEFINE active == CHOOSE i \in there : \A j \in there : i <= j
  <2>1. /\ DOMAIN wallet.accounts = 1..Len(wallet.accounts)
        /\ Len(wallet.accounts) \in Nat /\ wallet \in WalletRecords
    BY AccountsOfTheList DEF IInv, WalletTyped
  <2>2. active \in there /\ active \in 1..Len(wallet.accounts)
    <3>1. there \in SUBSET Nat
      BY <2>1
    <3>2. QED
      BY <1>3, <2>1, <3>1, LeastElement
  <2>3. wallet' = [wallet EXCEPT !.net = net, !.accounts = wallet.accounts, !.active = active]
    BY <1>3 DEF SwitchNetwork
  <2> HIDE DEF active, there
  <2>4. /\ wallet'.number = wallet.number /\ wallet'.accounts = wallet.accounts
        /\ wallet'.active = active
    BY <2>1, <2>3 DEF WalletRecords
  <2>5. wallet' \in WalletRecords
    <3>1. wallet' = [wallet EXCEPT !.net = net, !.active = active]
      BY <2>1, <2>3 DEF WalletRecords
    <3>2. active \in Nat
      BY <2>1, <2>2
    <3>3. QED
      BY <2>1, <3>1, <3>2 DEF WalletRecords
  <2>6. WalletTyped'
    BY <2>1, <2>2, <2>4, <2>5 DEF IInv, WalletTyped
  <2>7. \A r \in Requests : SeenIsPrefix(window[r].view)'
    BY <1>1, <2>4 DEF IInv, RequestsOK, RequestOK, SeenIsPrefix
  <2>8. QED
    BY <1>1, <2>6, <2>7, WalletStepIInv
<1>4. QED
  BY <1>2, <1>3

LEMMA CreateAccountIInv ==
  ASSUME IInv, CreateAccount
  PROVE  IInv'
<1>1. UNCHANGED <<page, handler, pending, window>>
  BY DEF CreateAccount, Move
<1>2. wallet.net \in Networks
  BY DEF IInv, WalletTyped, WalletRecords
<1>3. wallet' = [wallet EXCEPT !.net = wallet.net, !.active = Len(wallet.accounts) + 1,
                               !.accounts = Append(wallet.accounts, NewAccount(wallet.net))]
  BY DEF CreateAccount, IInv, WalletTyped, WalletRecords
<1>4. QED
  BY <1>1, <1>2, <1>3, AppendIInv DEF CreateAccount

\* The wallet is removed, and another one created, which no window has shown.
LEMMA RemovalIInv ==
  ASSUME IInv, Logout \/ LogoutEnds \/ CreateWallet
  PROVE  IInv'
<1>1. UNCHANGED <<page, handler, pending, window>>
  BY DEF Logout, LogoutEnds, CreateWallet, Move
<1>2. wallet \in WalletRecords /\ wallet.number \in Nat
  BY DEF IInv, WalletTyped, WalletRecords
<1>3. << >> \in Seq(AccountRecords) /\ Len(<< >>) = 0 /\ DOMAIN << >> = {}
  BY EmptySeq
<1>4. \A r \in Requests :
        /\ SeenIsPrefix(window[r].view) /\ window[r].view \in Seq(AccountRecords)
        /\ window[r].view # <<>> => window[r].view[1].wallet \in Nat
  <2>1. ASSUME NEW view \in Seq(AccountRecords), view # <<>>
        PROVE  view[1].wallet \in Nat
    <3>1. 1 \in 1..Len(view)
      BY <2>1, EmptySeq, LenProperties
    <3>2. view[1] \in AccountRecords
      BY <3>1, ElementOfSeq
    <3>3. QED
      BY <3>2 DEF AccountRecords
  <2>2. QED
    BY <2>1 DEF IInv, Typed, WindowRecords, RequestsOK, RequestOK
<1>5. CASE Logout
  <2>1. wallet' = [wallet EXCEPT !.accounts = <<>>, !.active = 0]
    BY <1>5 DEF Logout
  <2>2. wallet' \in WalletRecords
    BY <1>2, <1>3, <2>1 DEF WalletRecords
  <2>3. wallet'.accounts = <<>> /\ wallet'.number = wallet.number /\ wallet'.active = 0
    BY <1>2, <2>1 DEF WalletRecords
  <2>4. WalletTyped'
    BY <1>3, <2>2, <2>3 DEF WalletTyped
  <2>5. \A r \in Requests : SeenIsPrefix(window[r].view)'
    BY <1>1, <1>4, <2>3 DEF SeenIsPrefix
  <2>6. QED
    BY <1>1, <2>4, <2>5, WalletStepIInv
<1>6. CASE LogoutEnds
  <2>1. wallet' = [wallet EXCEPT !.vault = FALSE, !.net = Mainnet]
    BY <1>6 DEF LogoutEnds
  <2>2. wallet' \in WalletRecords
    BY <1>2, <2>1 DEF WalletRecords
  <2>3. /\ wallet'.accounts = wallet.accounts /\ wallet'.number = wallet.number
        /\ wallet'.active = wallet.active
    BY <1>2, <2>1 DEF WalletRecords
  <2>4. WalletTyped'
    BY <2>2, <2>3 DEF IInv, WalletTyped
  <2>5. \A r \in Requests : SeenIsPrefix(window[r].view)'
    BY <1>1, <1>4, <2>3 DEF SeenIsPrefix
  <2>6. QED
    BY <1>1, <2>4, <2>5, WalletStepIInv
<1>7. CASE CreateWallet
  <2> DEFINE a == [wallet |-> wallet.number + 1, index |-> 0, net |-> wallet.net]
             list == <<a>>
  <2>1. wallet' = [wallet EXCEPT !.vault = TRUE, !.number = wallet.number + 1, !.active = 1,
                                 !.accounts = list]
    BY <1>2, <1>7 DEF CreateWallet
  <2>2. a \in AccountRecords /\ a.wallet = wallet.number + 1
    BY <1>2 DEF AccountRecords, WalletRecords
  <2> HIDE DEF a
  <2>3. list \in Seq(AccountRecords) /\ Len(list) = 1 /\ DOMAIN list = {1} /\ list[1] = a
    BY <2>2
  <2> HIDE DEF list
  <2>4. wallet' = [number |-> wallet.number + 1, vault |-> TRUE, net |-> wallet.net,
                   active |-> 1, accounts |-> list]
    BY <1>2, <2>1 DEF WalletRecords
  <2>5. wallet' \in WalletRecords
    BY <1>2, <2>3, <2>4 DEF WalletRecords
  <2>6. WalletTyped'
    <3>1. /\ wallet'.accounts = list /\ wallet'.number = wallet.number + 1
          /\ wallet'.active = 1
      BY <2>4
    <3>2. Len(list) <= MaxAccounts /\ 1 <= Len(list)
      BY <2>3
    <3>3. \A i \in DOMAIN list : list[i].wallet = wallet.number + 1
      BY <2>2, <2>3
    <3>4. QED
      BY <2>5, <3>1, <3>2, <3>3 DEF WalletTyped
  <2>7. \A r \in Requests : SeenIsPrefix(window[r].view)'
    BY <1>1, <1>2, <1>4, <2>4 DEF SeenIsPrefix
  <2>8. QED
    BY <1>1, <2>6, <2>7, WalletStepIInv
<1>8. QED
  BY <1>5, <1>6, <1>7

\* The worker dies under every request at once.
LEMMA WorkerDiesIInv ==
  ASSUME IInv, WorkerDies
  PROVE  IInv'
<1> USE RequestState
<1> DEFINE done == [NoHandler EXCEPT !.phase = "done"]
<1>1. done \in HandlerRecords /\ done.phase = "done" /\ done.share = NoShare
  BY DEF NoHandler, NoShare, HandlerRecords, Shares
<1>2. ASSUME NEW r \in Requests
      PROVE  /\ page'[r] = IF page[r] = "waiting" THEN "error" ELSE page[r]
             /\ handler'[r] = IF handler[r].phase = "none" THEN handler[r] ELSE done
             /\ pending'[r] = "none"
             /\ window'[r] \in WindowRecords
             /\ window'[r].phase = window[r].phase /\ window'[r].act = window[r].act
             /\ window'[r].view = window[r].view /\ window'[r].offered = window[r].offered
             /\ window'[r].chosen = window[r].chosen
  BY DEF WorkerDies, WindowRecords
<1> HIDE DEF done
<1>3. Typed'
  <2>1. /\ page' = [r \in Requests |-> page'[r]] /\ handler' = [r \in Requests |-> handler'[r]]
        /\ pending' = [r \in Requests |-> pending'[r]]
        /\ window' = [r \in Requests |-> window'[r]]
    BY DEF WorkerDies
  <2>2. \A r \in Requests : /\ page'[r] \in PageStates /\ handler'[r] \in HandlerRecords
                            /\ pending'[r] \in PendingStates /\ window'[r] \in WindowRecords
    BY <1>1, <1>2 DEF PageStates, PendingStates
  <2>3. QED
    BY <2>1, <2>2 DEF Typed
<1>4. WalletTyped'
  BY DEF WorkerDies, IInv, WalletTyped
<1>5. ASSUME NEW r \in Requests
      PROVE  RequestOK(page[r], handler[r], pending[r], window[r])'
  <2>1. SeenIsPrefix(window[r].view)'
    BY <1>2 DEF WorkerDies, RequestOK, SeenIsPrefix
  <2>2. WindowIsHonest(window[r])' /\ ShareIsOfView(handler[r], window[r])'
    BY <1>1, <1>2 DEF RequestOK, WindowIsHonest, ShareIsOfView, NoShare
  <2>3. StartsFresh(page[r], handler[r], pending[r], window[r])'
    BY <1>1, <1>2 DEF RequestOK, StartsFresh, NoHandler
  <2>4. OnlyAfterYes(handler[r], window[r])'
    BY <1>1, <1>2 DEF RequestOK, OnlyAfterYes
  <2>5. QED
    BY <2>1, <2>2, <2>3, <2>4 DEF RequestOK
<1>6. QED
  BY <1>3, <1>4, <1>5 DEF IInv, RequestsOK

\* Every step preserves the inductive invariant.
LEMMA NextIInv == IInv /\ [Next]_vars => IInv'
<1>1. SUFFICES ASSUME IInv, [Next]_vars PROVE IInv'
  OBVIOUS
<1>2. ASSUME NEW r \in Requests, Request(r) \/ LeavePage(r) PROVE IInv'
  BY <1>1, <1>2, PageIInv
<1>3. ASSUME NEW r \in Requests, Worker(r) PROVE IInv'
  <2>1. CASE Handle(r)
    BY <1>1, <2>1, HandleIInv
  <2>2. CASE CollectRest(r) \/ Answer(r)
    BY <1>1, <2>2, AnswerIInv
  <2>3. CASE CreateCallback(r)
    BY <1>1, <2>3, CreateCallbackIInv
  <2>4. CASE Decided(r) \/ OnRemoved(r)
    BY <1>1, <2>4, DecisionIInv
  <2>5. QED
    BY <1>3, <2>1, <2>2, <2>3, <2>4 DEF Worker
<1>4. ASSUME NEW r \in Requests, Show(r) PROVE IInv'
  BY <1>1, <1>4, ShowIInv
<1>5. ASSUME NEW r \in Requests, NEW i \in 1..MaxAccounts, NEW act \in {"yes", "no"},
             Close(r) \/ Pick(r, i) \/ Click(r, act)
      PROVE  IInv'
  BY <1>1, <1>5, UserIInv
<1>6. ASSUME NEW net \in Networks, SwitchNetwork(net) PROVE IInv'
  BY <1>1, <1>6, SwitchNetworkIInv
<1>7. CASE CreateAccount
  BY <1>1, <1>7, CreateAccountIInv
<1>8. CASE Logout \/ LogoutEnds \/ CreateWallet
  BY <1>1, <1>8, RemovalIInv
<1>9. CASE WorkerDies
  BY <1>1, <1>9, WorkerDiesIInv
<1>10. CASE UNCHANGED vars
  BY <1>1, <1>10
  DEF vars, IInv, Typed, WalletTyped, RequestsOK, RequestOK, StartsFresh, WindowIsHonest,
      OnlyAfterYes, SeenIsPrefix, ShareIsOfView
<1>11. ASSUME NEW r \in Requests, Close(r) PROVE IInv'
  <2>1. 1 \in 1..MaxAccounts
    OBVIOUS
  <2>2. QED
    BY <1>5, <1>11, <2>1
<1>12. QED
  BY <1>1, <1>2, <1>3, <1>4, <1>5, <1>6, <1>7, <1>8, <1>9, <1>10, <1>11 DEF Next

\* The inductive invariant holds in every reachable state.
THEOREM InductiveInvariant == Spec => []IInv
BY InitIInv, NextIInv, PTL DEF Spec

-----------------------------------------------------------------------------

\* What the website gets is of the account that its window named, whatever the wallet has
\* moved to since, or of a wallet made since (resolveApproval and the handlers' reads of
\* the account list).
THEOREM WhatIsSharedWasChosen == Spec => []SharedIsChosen
<1>1. IInv => TypeOK
  <2> SUFFICES ASSUME IInv PROVE TypeOK
    OBVIOUS
  <2>1. page \in [Requests -> PageStates] /\ pending \in [Requests -> PendingStates]
    BY DEF IInv, Typed
  <2>2. wallet.net \in Networks /\ wallet.active \in 0..Len(wallet.accounts)
    <3>1. Len(wallet.accounts) \in Nat
      BY AccountsOfTheList DEF IInv
    <3>2. QED
      BY <3>1 DEF IInv, WalletTyped, WalletRecords
  <2>3. ASSUME NEW r \in Requests
        PROVE  /\ handler[r].phase \in {"none", "sent", "approval", "addresses", "answer", "done"}
               /\ handler[r].chosen \in 1..MaxAccounts \cup {None}
               /\ window[r].phase \in {"none", "failed", "loading", "shown", "error", "closing",
                                       "closed", "gone"}
               /\ window[r].chosen \in window[r].offered \cup {None}
               /\ pending[r] # "none" <=> handler[r].phase = "approval"
    <3>1. handler[r] \in HandlerRecords /\ window[r] \in WindowRecords
      BY RequestState
    <3>2. RequestOK(page[r], handler[r], pending[r], window[r])
      BY RequestState
    <3>3. QED
      BY <3>1, <3>2 DEF HandlerRecords, WindowRecords, RequestOK, StartsFresh, WindowIsHonest
  <2>4. QED
    BY <2>1, <2>2, <2>3 DEF TypeOK, PageStates, PendingStates
<1>2. IInv => SharedIsChosen
  BY <1>1 DEF IInv, RequestsOK, RequestOK, ShareIsOfView, SharedIsChosen
<1>3. QED
  BY <1>2, InductiveInvariant, PTL

-----------------------------------------------------------------------------
(* The provider implements Consent.                                        *)

ReplyOf(p) == IF p \in {"data", "rejected", "error"} THEN p ELSE "none"

\* A step that decides and answers nothing.
LEMMA QuietStep ==
  ASSUME \A r \in Requests : window'[r].act = window[r].act /\ ReplyOf(page'[r]) = ReplyOf(page[r])
  PROVE  UNCHANGED Promise!consent
BY DEF Promise!consent, ReplyOf

\* The user decides one request: a click, or closing the window unclicked.
LEMMA DecideStep ==
  ASSUME IInv, NEW r \in Requests, NEW act \in {"yes", "no"}, window[r].act = "none",
         window'[r].act = act, \A q \in Requests \ {r} : window'[q].act = window[q].act,
         UNCHANGED page
  PROVE  Promise!Next
<1>1. Promise!Decide(r, act)
  BY DEF Promise!Decide
<1>2. QED
  BY <1>1 DEF Promise!Next

\* The requests of a set that are still waiting are answered.
LEMMA ReplyStep ==
  ASSUME IInv, NEW some \in SUBSET Requests, NEW what \in {"data", "rejected", "error"},
         \A r \in some : /\ page[r] = "waiting"
                         /\ what = "data" => window[r].act = "yes"
                         /\ what = "rejected" => window[r].act # "none",
         page' = [r \in Requests |-> IF r \in some THEN what ELSE page[r]],
         \A r \in Requests : window'[r].act = window[r].act
  PROVE  Promise!Next
<1>1. Promise!Reply(some, what)
  BY DEF Promise!Reply
<1>2. QED
  BY <1>1 DEF Promise!Next

\* One request is answered, if its page still waits.
LEMMA SettleStep ==
  ASSUME IInv, NEW r \in Requests, NEW what \in {"data", "rejected", "error"},
         what = "data" => window[r].act = "yes",
         what = "rejected" => window[r].act # "none",
         page' = Settle(r, what), \A q \in Requests : window'[q].act = window[q].act
  PROVE  [Promise!Next]_(Promise!consent)
<1>1. page \in [Requests -> PageStates]
  BY DEF IInv, Typed
<1>2. CASE page[r] = "waiting"
  <2>1. page' = [q \in Requests |-> IF q \in {r} THEN what ELSE page[q]]
    BY <1>1, <1>2 DEF Settle
  <2>2. QED
    BY <1>2, <2>1, ReplyStep
<1>3. CASE page[r] # "waiting"
  <2>1. page' = page
    BY <1>1, <1>3 DEF Settle
  <2>2. QED
    BY <2>1, QuietStep
<1>4. QED
  BY <1>2, <1>3

\* A window that changes but for what the user did in it.
LEMMA ActIsKept ==
  ASSUME IInv, NEW r \in Requests, NEW w, w.act = window[r].act,
         window' = [window EXCEPT ![r] = w]
  PROVE  \A q \in Requests : window'[q].act = window[q].act
BY DEF IInv, Typed

\* The initial states are Consent's.
LEMMA InitPromise == Init => Promise!Init
BY DEF Init, NoWindow, Promise!Init

\* Every step of the provider is one of Consent, or decides and answers nothing.
LEMMA NextPromise == IInv /\ [Next]_vars => [Promise!Next]_(Promise!consent)
<1> SUFFICES ASSUME IInv, [Next]_vars PROVE [Promise!Next]_(Promise!consent)
  OBVIOUS
<1> USE RequestState
<1>1. ASSUME NEW r \in Requests, Request(r) \/ LeavePage(r)
      PROVE  [Promise!Next]_(Promise!consent)
  BY <1>1, QuietStep DEF IInv, Typed, Request, LeavePage, ReplyOf
<1>2. ASSUME NEW r \in Requests, Handle(r) PROVE [Promise!Next]_(Promise!consent)
  <2>1. \A q \in Requests : window'[q].act = window[q].act
    <3>1. CASE UNCHANGED window
      BY <3>1
    <3>2. ASSUME NEW phase \in {"loading", "failed"}, window' = [window EXCEPT ![r].phase = phase]
          PROVE  \A q \in Requests : window'[q].act = window[q].act
      BY <3>2 DEF IInv, Typed, WindowRecords
    <3>3. QED
      BY <1>2, <3>1, <3>2 DEF Handle
  <2>2. CASE UNCHANGED page
    BY <2>1, <2>2, QuietStep
  <2>3. CASE page' = Settle(r, "error")
    BY <2>1, <2>3, SettleStep
  <2>4. QED
    BY <1>2, <2>2, <2>3 DEF Handle
<1>3. ASSUME NEW r \in Requests, CollectRest(r) PROVE [Promise!Next]_(Promise!consent)
  BY <1>3, QuietStep DEF CollectRest
<1>4. ASSUME NEW r \in Requests, Answer(r) PROVE [Promise!Next]_(Promise!consent)
  <2>1. window[r].act = "yes"
    BY <1>4 DEF Answer, RequestOK, OnlyAfterYes
  <2>2. QED
    BY <1>4, <2>1, SettleStep DEF Answer
<1>5. ASSUME NEW r \in Requests, CreateCallback(r) \/ Show(r)
      PROVE  [Promise!Next]_(Promise!consent)
  <2>1. \A q \in Requests : window'[q].act = window[q].act
    <3>1. CASE CreateCallback(r)
      BY <3>1 DEF IInv, Typed, CreateCallback, WindowRecords
    <3>2. CASE Show(r) /\ pending[r] = "none"
      <4>1. window' = [window EXCEPT ![r] = [@ EXCEPT !.phase = "error"]]
        BY <3>2 DEF Show
      <4>2. QED
        BY <4>1 DEF IInv, Typed, WindowRecords
    <3>3. CASE Show(r) /\ pending[r] # "none"
      <4> DEFINE c == IF wallet.active \in Connectable THEN wallet.active
                      ELSE IF Connectable = {} THEN None
                      ELSE CHOOSE i \in Connectable : \A j \in Connectable : i <= j
                 w == [window[r] EXCEPT !.phase = "shown", !.view = wallet.accounts,
                                        !.offered = Connectable, !.chosen = c]
      <4>1. window' = [window EXCEPT ![r] = w]
        BY <3>3 DEF Show
      <4> HIDE DEF c
      <4>2. w.act = window[r].act
        BY DEF WindowRecords
      <4> HIDE DEF w
      <4>3. QED
        BY <4>1, <4>2, ActIsKept
    <3>4. QED
      BY <1>5, <3>1, <3>2, <3>3
  <2>2. UNCHANGED page
    BY <1>5 DEF CreateCallback, Show
  <2>3. QED
    BY <2>1, <2>2, QuietStep
<1>6. ASSUME NEW r \in Requests, Decided(r) \/ OnRemoved(r)
      PROVE  [Promise!Next]_(Promise!consent)
  <2>1. \A q \in Requests : window'[q].act = window[q].act
    <3>1. CASE Decided(r)
      <4> DEFINE w == Unloaded(r, "closing")
      <4>1. window' = [window EXCEPT ![r] = w]
        BY <3>1 DEF Decided
      <4>2. w.act = window[r].act
        BY DEF Unloaded, WindowRecords
      <4> HIDE DEF w
      <4>3. QED
        BY <4>1, <4>2, ActIsKept
    <3>2. CASE OnRemoved(r)
      BY <3>2 DEF IInv, Typed, OnRemoved, WindowRecords
    <3>3. QED
      BY <1>6, <3>1, <3>2
  <2>2. window[r].act # "none"
    BY <1>6 DEF Decided, OnRemoved, RequestOK, WindowIsHonest
  <2>3. CASE UNCHANGED page
    BY <2>1, <2>3, QuietStep
  <2>4. CASE page' = Settle(r, "rejected")
    BY <2>1, <2>2, <2>4, SettleStep
  <2>5. QED
    BY <1>6, <2>3, <2>4 DEF Decided, Resolve, Collect, OnRemoved, RejectRemoved, Rejected
<1>7. ASSUME NEW r \in Requests, NEW i \in 1..MaxAccounts, Pick(r, i)
      PROVE  [Promise!Next]_(Promise!consent)
  <2>1. \A q \in Requests : window'[q].act = window[q].act
    BY <1>7 DEF IInv, Typed, Pick, WindowRecords
  <2>2. UNCHANGED page
    BY <1>7 DEF Pick
  <2>3. QED
    BY <2>1, <2>2, QuietStep
<1>8. ASSUME NEW r \in Requests, NEW act \in {"yes", "no"}, Click(r, act)
      PROVE  [Promise!Next]_(Promise!consent)
  <2>1. /\ window'[r].act = act /\ \A q \in Requests \ {r} : window'[q].act = window[q].act
        /\ window[r].act = "none" /\ UNCHANGED page
    BY <1>8 DEF IInv, Typed, Click, WindowRecords
  <2>2. QED
    BY <2>1, DecideStep
<1>9. ASSUME NEW r \in Requests, Close(r) PROVE [Promise!Next]_(Promise!consent)
  <2>1. /\ window'[r].act = IF window[r].act = "none" THEN "no" ELSE window[r].act
        /\ \A q \in Requests \ {r} : window'[q].act = window[q].act
        /\ UNCHANGED page
    BY <1>9 DEF IInv, Typed, Close, Unloaded, WindowRecords
  <2>2. CASE window[r].act = "none"
    BY <2>1, <2>2, DecideStep
  <2>3. CASE window[r].act # "none"
    BY <2>1, <2>3, QuietStep
  <2>4. QED
    BY <2>2, <2>3
<1>10. CASE WorkerDies
  <2> DEFINE waiting == {r \in Requests : page[r] = "waiting"}
  <2>1. \A q \in Requests : window'[q].act = window[q].act
    BY <1>10 DEF IInv, Typed, WorkerDies, WindowRecords
  <2>2. page' = [r \in Requests |-> IF r \in waiting THEN "error" ELSE page[r]]
    BY <1>10 DEF WorkerDies
  <2>3. waiting \in SUBSET Requests /\ \A r \in waiting : page[r] = "waiting"
    OBVIOUS
  <2> HIDE DEF waiting
  <2>4. QED
    BY <2>1, <2>2, <2>3, ReplyStep
<1>11. CASE \/ \E net \in Networks : SwitchNetwork(net)
            \/ CreateAccount \/ Logout \/ LogoutEnds \/ CreateWallet
            \/ UNCHANGED vars
  <2>1. UNCHANGED <<page, window>>
    BY <1>11 DEF SwitchNetwork, CreateAccount, Logout, LogoutEnds, CreateWallet, Move, vars
  <2>2. QED
    BY <2>1, QuietStep
<1>12. QED
  BY <1>1, <1>2, <1>3, <1>4, <1>5, <1>6, <1>7, <1>8, <1>9, <1>10, <1>11 DEF Next, Worker

\* The provider keeps the promise: at most one answer to a request, data only after the
\* user's yes, and "rejected" only after a decision of the user.
THEOREM ProviderImplementsConsent == Spec => KeepsConsent
BY InitPromise, NextPromise, InductiveInvariant, PTL DEF Spec, KeepsConsent, Promise!Spec
=============================================================================
