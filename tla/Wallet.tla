------------------------------ MODULE Wallet ------------------------------
(*************************************************************************)
(* The customer's wallet: the ledger (modules/wallet/ledger.ts), top-ups  *)
(* by bank transfer (topup.ts), paying an order from it (purchase.ts) and *)
(* the owner's refund (refund.ts).                                       *)
(*                                                                       *)
(* Granularity: row locks.  A top-up's presentation locks the account and *)
(* then writes intents; its evidence locks an intent and then the account; *)
(* both are transactions of several steps here, and the deadlock their     *)
(* opposite orders can reach ends, as in PostgreSQL, by one being aborted. *)
(* A purchase and a refund lock their order first and the account last,    *)
(* nobody waits for them in between, so each is one step.                  *)
(*                                                                       *)
(* Identity of transfers is BankIdentity's; here a report that is stored   *)
(* falls through to the match, be its row new or AMBIGUOUS, and one that is  *)
(* merged changes nothing.  The webhook lane routes top-up codes to    *)
(* applyWalletTopupEvidence; reconciliation feeds everything to            *)
(* applyPaymentEvidence, which knows no top-up.                            *)
(*************************************************************************)
EXTENDS Integers, FiniteSets, FiniteSetsExt

CONSTANTS Customers, TopupIntents, Transfers, WalletOrders,
          WalletTxns,      \* database transactions that may be in progress
          Requests,        \* idempotency keys a purchase may be asked with
          Amounts,         \* amounts a top-up may be asked for and paid with
          BuyerOf,         \* order -> customer
          PriceOf,         \* order -> amount
          NoIntent, NoTransfer, NoCustomer

ASSUME WalletAssumption ==
  /\ Amounts \subseteq Nat \ {0}
  /\ BuyerOf \in [WalletOrders -> Customers]
  /\ PriceOf \in [WalletOrders -> Nat \ {0}]
  /\ NoIntent \notin TopupIntents
  /\ NoTransfer \notin Transfers
  /\ NoCustomer \notin Customers

VARIABLES balance,   \* wallet_account.balance_vnd
          ledger,    \* wallet_ledger with its double-entry pair
          topup,     \* wallet_topup_intent rows
          transfer,  \* the transfers customers made and how each was recorded
          order,     \* the order's status
          wtxn       \* the transactions in progress

walletVars == <<balance, ledger, topup, transfer, order, wtxn>>

Live == {"CREATED", "PRESENTED"}
TopupStatuses == Live \cup {"none", "SUCCEEDED", "EXPIRED", "NEEDS_REVIEW"}
\* Where the clock stands for an intent: before expires_at, past it, and past
\* it by more than the 60 seconds of grace.
Ages == {"fresh", "lapsed", "late"}
NoTopup == [status |-> "none", customer |-> NoCustomer, amount |-> 0, age |-> "fresh"]
NotMade == [content |-> NoIntent, amount |-> 0, late |-> FALSE, recorded |-> "none"]

\* LEDGER_SYSTEM_ACCOUNT_CODES: the counter-leg of each movement.
CounterAccount(key) ==
  CASE key[1] = "topup" -> "BANK_SETTLEMENT"
    [] key[1] = "purchase" -> "SHOP_REVENUE"
    [] key[1] = "refund" -> "REFUND_EXPENSE"

TopupKey(i, t) == <<"topup", i, t>>
PurchaseKey(o, k) == <<"purchase", o, k>>
RefundKey(o) == <<"refund", o>>
Keys == {TopupKey(i, t) : i \in TopupIntents, t \in Transfers}
        \cup {PurchaseKey(o, k) : o \in WalletOrders, k \in Requests}
        \cup {RefundKey(o) : o \in WalletOrders}

Entries == [customer : Customers, kind : {"CREDIT", "DEBIT"}, amount : Nat \ {0},
            key : Keys, counter : {"BANK_SETTLEMENT", "SHOP_REVENUE", "REFUND_EXPENSE"}]

NoTxn == [at |-> "idle", customer |-> NoCustomer, amount |-> 0,
          intent |-> NoIntent, transfer |-> NoTransfer]

OrderStatuses == {"PENDING_PAYMENT", "PAID", "REFUND_PENDING", "REFUNDED"}

WalletTypeOK ==
  /\ balance \in [Customers -> Nat]
  /\ ledger \subseteq Entries
  /\ topup \in [TopupIntents -> [status : TopupStatuses, customer : Customers \cup {NoCustomer},
                                 amount : Amounts \cup {0}, age : Ages]]
  /\ transfer \in [Transfers -> [content : TopupIntents \cup {NoIntent},
                                 amount : Amounts \cup {0}, late : BOOLEAN,
                                 recorded : {"none", "topup lane", "payment lane"}]]
  /\ order \in [WalletOrders -> OrderStatuses]
  /\ wtxn \in [WalletTxns -> [at : {"idle", "presenting", "crediting"},
                              customer : Customers \cup {NoCustomer},
                              amount : Amounts \cup {0},
                              intent : TopupIntents \cup {NoIntent},
                              transfer : Transfers \cup {NoTransfer}]]

WalletInit ==
  /\ balance = [c \in Customers |-> 0]
  /\ ledger = {}
  /\ topup = [i \in TopupIntents |-> NoTopup]
  /\ transfer = [t \in Transfers |-> NotMade]
  /\ order = [o \in WalletOrders |-> "PENDING_PAYMENT"]
  /\ wtxn = [p \in WalletTxns |-> NoTxn]

-----------------------------------------------------------------------------
\* Row locks held by the transactions in progress.
AccountLocked(c) == \E p \in WalletTxns : wtxn[p].at = "presenting" /\ wtxn[p].customer = c
IntentLocked(i) == \E p \in WalletTxns : wtxn[p].at = "crediting" /\ wtxn[p].intent = i
BeingRecorded(t) == \E p \in WalletTxns : wtxn[p].at = "crediting" /\ wtxn[p].transfer = t

End(p) == wtxn' = [wtxn EXCEPT ![p] = NoTxn]

(* applyMutation: under the account's lock, a key used before changes       *)
(* nothing; a debit the balance does not cover is refused; otherwise the    *)
(* balance, the entry and its balanced pair are written together.           *)
KeyUsed(c, key) == \E e \in ledger : e.customer = c /\ e.key = key

Post(c, kind, amount, key) ==
  /\ ledger' = ledger \cup {[customer |-> c, kind |-> kind, amount |-> amount,
                             key |-> key, counter |-> CounterAccount(key)]}
  /\ balance' = [balance EXCEPT ![c] = IF kind = "CREDIT" THEN @ + amount ELSE @ - amount]

Credit(c, amount, key) ==
  IF KeyUsed(c, key) THEN UNCHANGED <<ledger, balance>> ELSE Post(c, "CREDIT", amount, key)

\* Mutant of Covers: the balance is not looked at.
CoversAnything(c, amount) == TRUE

Covers(c, amount) == balance[c] >= amount

Debit(c, amount, key) ==
  /\ ~KeyUsed(c, key)
  /\ Covers(c, amount)
  /\ Post(c, "DEBIT", amount, key)

-----------------------------------------------------------------------------
LiveOf(c) == {i \in TopupIntents : topup[i].status \in Live /\ topup[i].customer = c}
Expire(I) == [i \in TopupIntents |->
               IF i \in I THEN [topup[i] EXCEPT !.status = "EXPIRED"] ELSE topup[i]]

(* presentWalletTopup, first half: the account exists and is locked.        *)
PresentLock(p, c, a) ==
  /\ wtxn[p].at = "idle"
  /\ ~AccountLocked(c)
  /\ wtxn' = [wtxn EXCEPT ![p] = [NoTxn EXCEPT !.at = "presenting", !.customer = c, !.amount = a]]
  /\ UNCHANGED <<balance, ledger, topup, transfer, order>>

Lapsed(c) == {i \in LiveOf(c) : topup[i].age # "fresh"}
Existing(c) == LiveOf(c) \ Lapsed(c)

(* Second half: lapsed intents expire, and a live one of the same amount is *)
(* shown again.  Each update waits for the locks of the rows it changes.    *)
PresentAgain(p) ==
  LET c == wtxn[p].customer IN
  /\ wtxn[p].at = "presenting"
  /\ \E i \in Existing(c) : topup[i].amount = wtxn[p].amount
  /\ \A i \in Lapsed(c) : ~IntentLocked(i)
  /\ topup' = Expire(Lapsed(c))
  /\ End(p)
  /\ UNCHANGED <<balance, ledger, transfer, order>>

(* Or a live one of another amount expires too, and a new one is stored.    *)
PresentNew(p, i) ==
  LET c == wtxn[p].customer IN
  /\ wtxn[p].at = "presenting"
  /\ topup[i].status = "none"
  /\ \A j \in Existing(c) : topup[j].amount # wtxn[p].amount
  /\ \A j \in LiveOf(c) : ~IntentLocked(j)
  /\ topup' = [Expire(LiveOf(c)) EXCEPT ![i] =
       [status |-> "PRESENTED", customer |-> c, amount |-> wtxn[p].amount, age |-> "fresh"]]
  /\ End(p)
  /\ UNCHANGED <<balance, ledger, transfer, order>>

(* cancelLiveWalletTopup: one update of the customer's live intents.        *)
CancelTopup(c) ==
  /\ LiveOf(c) # {}
  /\ \A i \in LiveOf(c) : ~IntentLocked(i)
  /\ topup' = Expire(LiveOf(c))
  /\ UNCHANGED <<balance, ledger, transfer, order, wtxn>>

(* Time passes for an intent: its expiry, then the grace.                   *)
Lapse(i) ==
  /\ topup[i].status # "none"
  /\ topup[i].age # "late"
  /\ topup' = [topup EXCEPT ![i].age = IF @ = "fresh" THEN "lapsed" ELSE "late"]
  /\ UNCHANGED <<balance, ledger, transfer, order, wtxn>>

(* The customer pays with the code of an intent, now, any amount.           *)
Pay(t, i, a) ==
  /\ transfer[t] = NotMade
  /\ topup[i].status # "none"
  /\ transfer' = [transfer EXCEPT ![t] =
       [content |-> i, amount |-> a, late |-> topup[i].age = "late", recorded |-> "none"]]
  /\ UNCHANGED <<balance, ledger, topup, order, wtxn>>

\* Mutant of Settles: the intent's status is not looked at.
SettlesThoughDecided(t) ==
  transfer[t].amount = topup[transfer[t].content].amount /\ ~transfer[t].late

\* decideTopupMatch: right amount, live, not late.
Settles(t) ==
  LET i == transfer[t].content IN
  /\ transfer[t].amount = topup[i].amount
  /\ topup[i].status \in Live
  /\ ~transfer[t].late

\* A report of which this run stores a row.  Its transfer is not recorded; or
\* the payment lane recorded it and, of two runs of the webhook's report, one was
\* merged into that row while the other, still at its look, stores an AMBIGUOUS one.
NewReport(t) ==
  /\ transfer[t] # NotMade
  /\ transfer[t].recorded # "topup lane"
  /\ ~BeingRecorded(t)

(* applyWalletTopupEvidence of a transfer that does not settle its intent:  *)
(* the row is recorded and the intent, whatever its status, needs review.   *)
EvidenceToReview(t) ==
  LET i == transfer[t].content IN
  /\ NewReport(t)
  /\ ~IntentLocked(i)
  /\ ~Settles(t)
  /\ transfer' = [transfer EXCEPT ![t].recorded = "topup lane"]
  /\ topup' = [topup EXCEPT ![i].status = "NEEDS_REVIEW"]
  /\ UNCHANGED <<balance, ledger, order, wtxn>>

(* Of one that does: the row is inserted and the intent is locked ...       *)
EvidenceLock(p, t) ==
  LET i == transfer[t].content IN
  /\ wtxn[p].at = "idle"
  /\ NewReport(t)
  /\ ~IntentLocked(i)
  /\ Settles(t)
  /\ wtxn' = [wtxn EXCEPT ![p] =
       [NoTxn EXCEPT !.at = "crediting", !.intent = i, !.transfer = t]]
  /\ UNCHANGED <<balance, ledger, topup, transfer, order>>

(* ... and, once the account is free, SUCCEEDED, credit and commit.         *)
EvidenceCredit(p) ==
  LET i == wtxn[p].intent
      t == wtxn[p].transfer
      c == topup[i].customer
  IN
  /\ wtxn[p].at = "crediting"
  /\ ~AccountLocked(c)
  /\ topup' = [topup EXCEPT ![i].status = "SUCCEEDED"]
  /\ transfer' = [transfer EXCEPT ![t].recorded = "topup lane"]
  /\ Credit(c, topup[i].amount, TopupKey(i, t))
  /\ End(p)
  /\ UNCHANGED order

(* reconcileSePay: a transfer first met on the API goes to the payment      *)
(* pipeline, where no payment intent has its code: an UNMATCHED discrepancy. *)
Reconcile(t) ==
  /\ NewReport(t)
  /\ transfer[t].recorded = "none"
  /\ transfer' = [transfer EXCEPT ![t].recorded = "payment lane"]
  /\ UNCHANGED <<balance, ledger, topup, order, wtxn>>

(* A deadlock victim, a crash, an error: nothing the transaction did stays. *)
WalletAbort(p) ==
  /\ wtxn[p].at # "idle"
  /\ End(p)
  /\ UNCHANGED <<balance, ledger, topup, transfer, order>>

-----------------------------------------------------------------------------
(* createWalletPurchaseService: a payable order, debited and PAID.          *)
Purchase(o, k) ==
  /\ order[o] = "PENDING_PAYMENT"
  /\ ~AccountLocked(BuyerOf[o])
  /\ Debit(BuyerOf[o], PriceOf[o], PurchaseKey(o, k))
  /\ order' = [order EXCEPT ![o] = "PAID"]
  /\ UNCHANGED <<topup, transfer, wtxn>>

(* The order is paid by bank transfer instead (Checkout).                   *)
PaidByBank(o) ==
  /\ order[o] = "PENDING_PAYMENT"
  /\ order' = [order EXCEPT ![o] = "PAID"]
  /\ UNCHANGED <<balance, ledger, topup, transfer, wtxn>>

(* openReplacementCase with requestRefund: the order waits for a refund.    *)
RequestRefund(o) ==
  /\ order[o] = "PAID"
  /\ order' = [order EXCEPT ![o] = "REFUND_PENDING"]
  /\ UNCHANGED <<balance, ledger, topup, transfer, wtxn>>

(* refundWalletCredit: the debit's exact amount, of a wallet-paid order.    *)
Refund(o) ==
  /\ order[o] = "REFUND_PENDING"
  /\ ~AccountLocked(BuyerOf[o])
  /\ \E e \in ledger :
       /\ e.customer = BuyerOf[o]
       /\ e.key \in {PurchaseKey(o, k) : k \in Requests}
       /\ Credit(BuyerOf[o], e.amount, RefundKey(o))
  /\ order' = [order EXCEPT ![o] = "REFUNDED"]
  /\ UNCHANGED <<topup, transfer, wtxn>>

WalletNext ==
  \/ \E p \in WalletTxns :
       \/ \E c \in Customers, a \in Amounts : PresentLock(p, c, a)
       \/ PresentAgain(p)
       \/ \E i \in TopupIntents : PresentNew(p, i)
       \/ \E t \in Transfers : EvidenceLock(p, t)
       \/ EvidenceCredit(p)
       \/ WalletAbort(p)
  \/ \E c \in Customers : CancelTopup(c)
  \/ \E i \in TopupIntents : Lapse(i)
  \/ \E t \in Transfers, i \in TopupIntents, a \in Amounts : Pay(t, i, a)
  \/ \E t \in Transfers : EvidenceToReview(t) \/ Reconcile(t)
  \/ \E o \in WalletOrders :
       (\E k \in Requests : Purchase(o, k)) \/ PaidByBank(o) \/ RequestRefund(o) \/ Refund(o)

WalletSpec == WalletInit /\ [][WalletNext]_walletVars

-----------------------------------------------------------------------------
CreditsWith(tag) == {e \in ledger : e.kind = "CREDIT" /\ e.key[1] = tag}

(* Every top-up credit is one transfer's money: made with the intent's code, *)
(* in time, for its amount, recorded by the top-up lane, in an ambiguous row  *)
(* or not; and an intent or a transfer is credited at most once, whatever runs are in progress and      *)
(* however often its code is paid.                                           *)
TopupCreditsAreBacked ==
  /\ \A e \in CreditsWith("topup") :
       LET i == e.key[2]
           t == e.key[3]
       IN /\ transfer[t].content = i
          /\ transfer[t].amount = e.amount
          /\ ~transfer[t].late
          /\ transfer[t].recorded = "topup lane"
          /\ topup[i].status \in {"SUCCEEDED", "NEEDS_REVIEW"}
          /\ topup[i].customer = e.customer
  /\ \A e, f \in CreditsWith("topup") :
       (e.key[2] = f.key[2] \/ e.key[3] = f.key[3]) => e = f

(* A refund returns what the wallet paid for that order, once, to the buyer, *)
(* and only orders the wallet paid are ever refunded to it; an order is paid *)
(* from the wallet once, under whatever keys it was asked.                   *)
RefundsMirrorPurchases ==
  /\ \A o \in WalletOrders : order[o] = "REFUNDED" <=> KeyUsed(BuyerOf[o], RefundKey(o))
  /\ \A e \in CreditsWith("refund") :
       \E f \in ledger : /\ f.kind = "DEBIT"
                         /\ f.key[1] = "purchase" /\ f.key[2] = e.key[2]
                         /\ f.customer = e.customer
                         /\ f.amount = e.amount
  /\ \A e, f \in ledger :
       (e.key[1] # "topup" /\ e.key[1] = f.key[1] /\ e.key[2] = f.key[2]) => e = f

EntriesOf(c, kind) == {e \in ledger : e.customer = c /\ e.kind = kind}
AmountSum(entries) == MapThenSumSet(LAMBDA e : e.amount, entries)

(* The cached balance is the sum of the ledger (the deferred triggers of     *)
(* migration 063 check it at commit).                                        *)
BalanceIsLedger ==
  \A c \in Customers :
    balance[c] = AmountSum(EntriesOf(c, "CREDIT")) - AmountSum(EntriesOf(c, "DEBIT"))

(* The wallet owes what was paid into it and no more: the three laws of its   *)
(* ledger, kept through aborts, replays and transactions that interleave.    *)
WalletIsBacked == TopupCreditsAreBacked /\ RefundsMirrorPurchases /\ BalanceIsLedger

(* A recorded transfer with the code of a top-up intent has reached it: the  *)
(* intent has succeeded or waits for a review.                               *)
RecordedTopupReachesIntent ==
  \A t \in Transfers :
    transfer[t].recorded # "none" =>
      topup[transfer[t].content].status \in {"SUCCEEDED", "NEEDS_REVIEW"}
=============================================================================
