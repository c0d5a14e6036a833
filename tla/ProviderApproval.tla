--------------------------- MODULE ProviderApproval ---------------------------
(***************************************************************************)
(* A website's request for addresses: the provider in the page, the        *)
(* content script, the handler in the service worker with its map of       *)
(* pending approvals, and the approval window that the user answers.       *)
(*                                                                         *)
(* Meanwhile the wallet moves: networks and accounts are switched, the     *)
(* wallet is removed and another one created.  An account is the wallet it *)
(* belongs to, its HD index and its network; what is shared names accounts.*)
(***************************************************************************)
EXTENDS Integers, Sequences, FiniteSets

CONSTANTS
  Requests,    \* the requests of the websites
  Handled,     \* those with a known method from a web origin
  XpubOnly,    \* those for getXpub, which has nothing to await
  Networks,    \* the Bitcoin networks
  Mainnet,     \* the one a wallet starts on
  None,        \* nothing chosen, nothing shared
  MaxAccounts, \* how many accounts a wallet has
  MaxMoves     \* how many operations on the wallet, and deaths of the worker

ASSUME ProviderAssumption ==
  /\ Handled \subseteq Requests /\ XpubOnly \subseteq Handled
  /\ Mainnet \in Networks /\ None \notin Nat
  /\ MaxAccounts \in Nat \ {0} /\ MaxMoves \in Nat

VARIABLES
  page,      \* the promise of provider.request()
  handler,   \* handle() of the request
  pending,   \* pendingApprovals: whether an entry is there and knows its window
  window,    \* the approval window
  wallet,    \* the vault, accountManager and the preferences
  moves      \* what the bounds have left

vars == <<page, handler, pending, window, wallet, moves>>

NoShare == [first |-> None, rest |-> None]
NoHandler == [phase |-> "none", chosen |-> None, share |-> NoShare]
NoWindow == [phase |-> "none", called |-> "no", act |-> "none", view |-> <<>>, offered |-> {},
             chosen |-> None]

\* A restored wallet with one account.
Init ==
  /\ page = [r \in Requests |-> "idle"]
  /\ handler = [r \in Requests |-> NoHandler]
  /\ pending = [r \in Requests |-> "none"]
  /\ window = [r \in Requests |-> NoWindow]
  /\ wallet = [number |-> 1, vault |-> TRUE, net |-> Mainnet, active |-> 1,
               accounts |-> <<[wallet |-> 1, index |-> 0, net |-> Mainnet]>>]
  /\ moves = MaxMoves

-----------------------------------------------------------------------------
(* The wallet, as the handlers read it.  A list index counts from one here. *)

Account(i) == IF i \in DOMAIN wallet.accounts THEN wallet.accounts[i] ELSE None

\* connectableAccounts()
Connectable == {i \in DOMAIN wallet.accounts : wallet.accounts[i].net = wallet.net}

-----------------------------------------------------------------------------
(* The page and the content script.                                        *)

\* provider.request(): the message goes through the content script to the worker.
Request(r) ==
  /\ page[r] = "idle"
  /\ page' = [page EXCEPT ![r] = "waiting"]
  /\ handler' = [handler EXCEPT ![r].phase = "sent"]
  /\ UNCHANGED <<pending, window, wallet, moves>>

\* The response goes back; the listener takes the one with its id and removes itself.
\* A page that was left has no listener.
Settle(r, what) == [page EXCEPT ![r] = IF @ = "waiting" THEN what ELSE @]

\* The website is closed or reloaded.
LeavePage(r) ==
  /\ page[r] = "waiting"
  /\ page' = [page EXCEPT ![r] = "left"]
  /\ UNCHANGED <<handler, pending, window, wallet, moves>>

-----------------------------------------------------------------------------
(* The handler.                                                            *)

\* handle() once the adapters are ready: an unknown method, a wallet that is not set up
\* or a non-web origin is answered at once; else the approval is entered in the map and
\* its window asked for.
Handle(r) ==
  /\ handler[r].phase = "sent"
  /\ IF r \in Handled /\ wallet.vault
       THEN /\ handler' = [handler EXCEPT ![r].phase = "approval"]
            /\ pending' = [pending EXCEPT ![r] = "windowless"]
            /\ \E phase \in {"loading", "failed"} : window' = [window EXCEPT ![r].phase = phase]
            /\ UNCHANGED page
       ELSE /\ handler' = [handler EXCEPT ![r].phase = "done"]
            /\ page' = Settle(r, "error")
            /\ UNCHANGED <<pending, window>>
  /\ UNCHANGED <<wallet, moves>>

\* item.resolve(rejected): the handler answers 4001.
Rejected(r) ==
  /\ handler' = [handler EXCEPT ![r].phase = "done"]
  /\ page' = Settle(r, "rejected")

\* fn() up to its first await: getXpub is through, and the addresses know their account.
Collect(r) ==
  /\ handler' = [handler EXCEPT ![r] =
       [phase |-> IF r \in XpubOnly THEN "answer" ELSE "addresses", chosen |-> window[r].chosen,
        share |-> [NoShare EXCEPT !.first = Account(window[r].chosen)]]]
  /\ UNCHANGED page

\* resolveApproval(): the entry goes, and the choice holds if the account can still be
\* connected.
Resolve(r) ==
  /\ pending' = [pending EXCEPT ![r] = "none"]
  /\ IF window[r].chosen \in Connectable THEN Collect(r) ELSE Rejected(r)

\* Faulty variant: getEvmAddressIndex() without an argument is that of the active account.
CollectRestOfActive(r) ==
  /\ handler[r].phase = "addresses"
  /\ handler' = [handler EXCEPT ![r].phase = "answer", ![r].share.rest = Account(wallet.active)]
  /\ UNCHANGED <<page, pending, window, wallet, moves>>

\* The stored histories have arrived: the EVM address and the xpub are read now.
CollectRest(r) ==
  /\ handler[r].phase = "addresses"
  /\ handler' = [handler EXCEPT ![r] =
       [@ EXCEPT !.phase = "answer", !.share.rest = Account(handler[r].chosen)]]
  /\ UNCHANGED <<page, pending, window, wallet, moves>>

Answer(r) ==
  /\ handler[r].phase = "answer"
  /\ handler' = [handler EXCEPT ![r] = [NoHandler EXCEPT !.phase = "done"]]
  /\ page' = Settle(r, "data")
  /\ UNCHANGED <<pending, window, wallet, moves>>

-----------------------------------------------------------------------------
(* The approval window.                                                    *)

\* The callback of windows.create() enters the window's id, perhaps after the window has
\* been closed again.  There is none to enter if the browser could not open one.
CreateCallback(r) ==
  /\ window[r].phase \in {"loading", "shown", "error", "closed", "gone"}
  /\ window[r].called = "no"
  /\ window' = [window EXCEPT ![r].called = IF window[r].phase = "gone" THEN "late" ELSE "yes"]
  /\ pending' = [pending EXCEPT ![r] = IF @ = "windowless" THEN "known" ELSE @]
  /\ UNCHANGED <<page, handler, wallet, moves>>

\* provider.getApproval: the accounts are those of the moment, and the active one is
\* preselected if it is among them.
Show(r) ==
  /\ window[r].phase = "loading"
  /\ window' = [window EXCEPT ![r] =
       IF pending[r] = "none" THEN [@ EXCEPT !.phase = "error"]
       ELSE [@ EXCEPT !.phase = "shown", !.view = wallet.accounts, !.offered = Connectable,
               !.chosen = IF wallet.active \in Connectable THEN wallet.active
                          ELSE IF Connectable = {} THEN None
                          ELSE CHOOSE i \in Connectable : \A j \in Connectable : i <= j]]
  /\ UNCHANGED <<page, handler, pending, wallet, moves>>

Pick(r, i) ==
  /\ window[r].phase = "shown" /\ i \in window[r].offered
  /\ window' = [window EXCEPT ![r].chosen = i]
  /\ UNCHANGED <<page, handler, pending, wallet, moves>>

\* The user clicks, and the message is on its way; the window closes when it is answered.
Click(r, act) ==
  /\ window[r].phase = "shown" /\ window[r].act = "none"
  /\ act = "yes" => window[r].chosen # None
  /\ window' = [window EXCEPT ![r].act = act]
  /\ UNCHANGED <<page, handler, pending, wallet, moves>>

\* What the page of window r showed is gone, but for what the user has seen.
Unloaded(r, phase) == [window[r] EXCEPT !.phase = phase, !.offered = {}, !.chosen = None]

\* provider.resolveApproval and provider.rejectApproval, then window.close().
Decided(r) ==
  /\ window[r].phase = "shown" /\ window[r].act # "none"
  /\ window' = [window EXCEPT ![r] = Unloaded(r, "closing")]
  /\ CASE pending[r] = "none" -> UNCHANGED <<page, handler, pending>>
       [] pending[r] # "none" /\ window[r].act = "yes" -> Resolve(r)
       [] OTHER -> pending' = [pending EXCEPT ![r] = "none"] /\ Rejected(r)
  /\ UNCHANGED <<wallet, moves>>

\* The window closes, by itself after a decision or by the user's hand at any time.  A
\* click whose message is still on its way goes on.
Close(r) ==
  /\ window[r].phase \in {"loading", "shown", "error", "closing"}
  /\ window[r].phase = "shown" => window[r].act = "none"
  /\ window' = [window EXCEPT ![r] =
       [Unloaded(r, "closed") EXCEPT !.act = IF @ = "none" THEN "no" ELSE @]]
  /\ UNCHANGED <<page, handler, pending, wallet, moves>>

\* Faulty variant: an approval whose window is not known yet counts as the closed one's.
RejectUnknown(r) ==
  LET gone == {q \in Requests : pending[q] = "windowless" \/ (q = r /\ pending[q] = "known")} IN
  /\ pending' = [q \in Requests |-> IF q \in gone THEN "none" ELSE pending[q]]
  /\ handler' = [q \in Requests |-> IF q \in gone THEN [handler[q] EXCEPT !.phase = "done"]
                                                  ELSE handler[q]]
  /\ page' = [q \in Requests |-> IF q \in gone /\ page[q] = "waiting" THEN "rejected" ELSE page[q]]

\* Faulty variant: the window's approval stays open.
RejectNone(r) == UNCHANGED <<pending, handler, page>>

\* The listener on windows.onRemoved: the approval with the window's id is rejected.
RejectRemoved(r) ==
  IF pending[r] = "known" THEN pending' = [pending EXCEPT ![r] = "none"] /\ Rejected(r)
                          ELSE UNCHANGED <<pending, handler, page>>

OnRemoved(r) ==
  /\ window[r].phase = "closed"
  /\ window' = [window EXCEPT ![r].phase = "gone"]
  /\ RejectRemoved(r)
  /\ UNCHANGED <<wallet, moves>>

-----------------------------------------------------------------------------
(* The wallet moves, and the worker dies.                                  *)

Move ==
  /\ moves > 0
  /\ moves' = moves - 1
  /\ UNCHANGED <<page, handler, pending, window>>

NewAccount(net) ==
  [wallet |-> wallet.number, net |-> net,
   index |-> Cardinality({i \in DOMAIN wallet.accounts : wallet.accounts[i].net = net})]

\* switchNetwork(), to the first account of the network, which may have to be created.
SwitchNetwork(net) ==
  /\ wallet.accounts # <<>> /\ net # wallet.net
  /\ LET there == {i \in DOMAIN wallet.accounts : wallet.accounts[i].net = net} IN
     /\ there # {} \/ Len(wallet.accounts) < MaxAccounts
     /\ wallet' = [wallet EXCEPT !.net = net,
          !.accounts = IF there = {} THEN Append(wallet.accounts, NewAccount(net)) ELSE @,
          !.active = IF there = {} THEN Len(wallet.accounts) + 1
                     ELSE CHOOSE i \in there : \A j \in there : i <= j]
  /\ Move

CreateAccount ==
  /\ wallet.accounts # <<>> /\ Len(wallet.accounts) < MaxAccounts
  /\ wallet' = [wallet EXCEPT !.active = Len(wallet.accounts) + 1,
                              !.accounts = Append(wallet.accounts, NewAccount(wallet.net))]
  /\ Move

\* Until the vault goes too, the wallet is one without an account.
Logout ==
  /\ wallet.vault /\ wallet.accounts # <<>>
  /\ wallet' = [wallet EXCEPT !.accounts = <<>>, !.active = 0]
  /\ Move

LogoutEnds ==
  /\ wallet.vault /\ wallet.accounts = <<>>
  /\ wallet' = [wallet EXCEPT !.vault = FALSE, !.net = Mainnet]
  /\ UNCHANGED <<page, handler, pending, window, moves>>

CreateWallet ==
  /\ ~wallet.vault
  /\ wallet' = [wallet EXCEPT !.vault = TRUE, !.number = @ + 1, !.active = 1,
                  !.accounts = <<[wallet |-> wallet.number + 1, index |-> 0, net |-> wallet.net]>>]
  /\ Move

\* The worker dies: the map is gone, and the content script answers the open requests
\* with a transport error.  The windows stay.
WorkerDies ==
  /\ moves > 0
  /\ moves' = moves - 1
  /\ pending' = [r \in Requests |-> "none"]
  /\ handler' = [r \in Requests |-> IF handler[r].phase = "none" THEN handler[r]
                                    ELSE [NoHandler EXCEPT !.phase = "done"]]
  /\ page' = [r \in Requests |-> IF page[r] = "waiting" THEN "error" ELSE page[r]]
  /\ window' = [r \in Requests |->
       [window[r] EXCEPT !.called = IF window[r].phase # "none" /\ @ = "no" THEN "late" ELSE @]]
  /\ UNCHANGED wallet

Worker(r) ==
  \/ Handle(r) \/ CollectRest(r) \/ Answer(r) \/ CreateCallback(r) \/ Decided(r)
  \/ OnRemoved(r)

Next ==
  \/ \E r \in Requests : Request(r) \/ LeavePage(r) \/ Worker(r)
  \/ \E r \in Requests : Show(r) \/ Close(r)
  \/ \E r \in Requests, i \in 1..MaxAccounts : Pick(r, i)
  \/ \E r \in Requests, act \in {"yes", "no"} : Click(r, act)
  \/ \E net \in Networks : SwitchNetwork(net)
  \/ CreateAccount \/ Logout \/ LogoutEnds \/ CreateWallet
  \/ WorkerDies

\* The worker goes on, and a window that has been decided closes itself.
Fairness ==
  \A r \in Requests : WF_vars(Worker(r)) /\ WF_vars(window[r].phase = "closing" /\ Close(r))

Spec == Init /\ [][Next]_vars /\ Fairness

-----------------------------------------------------------------------------
(* Properties.                                                             *)

\* Every variable stays in its set.
TypeOK ==
  /\ page \in [Requests -> {"idle", "waiting", "left", "data", "rejected", "error"}]
  /\ pending \in [Requests -> {"none", "windowless", "known"}]
  /\ wallet.net \in Networks /\ wallet.active \in 0..Len(wallet.accounts)
  /\ \A r \in Requests :
       /\ handler[r].phase \in {"none", "sent", "approval", "addresses", "answer", "done"}
       /\ handler[r].chosen \in 1..MaxAccounts \cup {None}
       /\ window[r].phase \in {"none", "failed", "loading", "shown", "error", "closing",
                               "closed", "gone"}
       /\ window[r].chosen \in window[r].offered \cup {None}
       /\ pending[r] # "none" <=> handler[r].phase = "approval"

\* What the website gets is of the account that its window named, whatever account and
\* network the wallet has moved to since; only a wallet that was removed and made anew
\* meanwhile has another account under the same list index.
SharedIsChosen ==
  /\ TypeOK
  /\ \A r \in Requests :
       \A part \in {handler[r].share.first, handler[r].share.rest} \ {None} :
         part = window[r].view[handler[r].chosen] \/ part.wallet > window[r].view[1].wallet

\* An approval nobody can give or refuse any more: its window never opened, or was closed
\* before its id was entered.
Lost(r) ==
  /\ pending[r] # "none"
  /\ window[r].phase \in {"failed", "gone"} /\ window[r].called # "yes"

\* A window that is gone, decided or not, leaves no request waiting; but for one that is
\* lost, which waits for the worker's death.
ClosedIsAnswered ==
  \A r \in Requests : window[r].phase = "closed" /\ page[r] = "waiting" ~> page[r] # "waiting" \/ Lost(r)

\* The provider keeps the website's and the user's promise.
Promise == INSTANCE Consent WITH
  decision <- [r \in Requests |-> window[r].act],
  reply <- [r \in Requests |-> IF page[r] \in {"data", "rejected", "error"} THEN page[r] ELSE "none"]

KeepsConsent == Promise!Spec
=============================================================================
