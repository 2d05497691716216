---------------------------- MODULE LedgerProofs ----------------------------
(***************************************************************************)
(* Ledgers that balance: the wallet's postings, the counted stock of        *)
(* service orders, and the legs of preorders with the queue they pay for,   *)
(* for any number of customers, transfers, orders, units and                *)
(* entries.  The argument: what is read under an intent's or an order's     *)
(* lock still holds when its entry is written, so an entry has its cause    *)
(* and its key is new; and the sum over a set with one new entry is the     *)
(* sum before plus that entry, in whatever order the set is added up.       *)
(***************************************************************************)
EXTENDS Wallet, ServiceOrder, Preorder, FiniteSetTheorems, TLAPS

-----------------------------------------------------------------------------
(* Sums.  MapThenSumSet takes one chosen element off a set at a time; what  *)
(* follows shows, by least counterexamples, that every order of taking them *)
(* gives the same sum.                                                      *)

Picked(s) == CHOOSE x \in s : TRUE

SumsUp(g, F, S) ==
  g = [s \in SUBSET S |-> IF s = {} THEN 0 ELSE F[Picked(s)] + g[s \ {Picked(s)}]]

LEMMA PickedIsIn ==
  ASSUME NEW s, s # {}
  PROVE  /\ Picked(s) \in s
         /\ s \ {Picked(s)} \in SUBSET s
         /\ s \ {Picked(s)} # s
<1>1. Picked(s) \in s
  BY DEF Picked
<1> HIDE DEF Picked
<1> QED
  BY <1>1

\* A non-empty family of subsets of a finite set has one that is least.
LEMMA LeastSubset ==
  ASSUME NEW S, IsFiniteSet(S), NEW K, K \subseteq SUBSET S, K # {}
  PROVE  \E s \in K : \A t \in K : t \subseteq s => t = s
<1>1. IsWellFoundedOn(StrictSubsetOrdering(S), SUBSET S)
  BY FS_StrictSubsetOrderingWellFounded, FS_FiniteSubsetsOfFinite
<1>2. PICK s \in K : \A t \in K : ~(<<t, s>> \in StrictSubsetOrdering(S))
  BY <1>1, WFMin
<1>3. ASSUME NEW t \in K, t \subseteq s, t # s
      PROVE  FALSE
  <2>1. <<t, s>> \in StrictSubsetOrdering(S)
    BY <1>3 DEF StrictSubsetOrdering
  <2> QED
    BY <1>2, <2>1
<1> QED
  BY <1>3

LEMMA SumsAgree ==
  ASSUME NEW F, NEW S, NEW T, IsFiniteSet(T), S \subseteq T,
         NEW g, SumsUp(g, F, S), NEW h, SumsUp(h, F, T),
         NEW u \in SUBSET S
  PROVE  g[u] = h[u]
<1> DEFINE K == {s \in SUBSET S : g[s] # h[s]}
<1>1. SUFFICES ASSUME K # {} PROVE FALSE
  OBVIOUS
<1>2. IsFiniteSet(S)
  BY FS_Subset
<1>3. PICK s \in K : \A t \in K : t \subseteq s => t = s
  <2>1. K \subseteq SUBSET S
    OBVIOUS
  <2> HIDE DEF K
  <2> QED
    BY <1>1, <1>2, <2>1, LeastSubset
<1>4. s \in SUBSET S /\ s \in SUBSET T /\ g[s] # h[s]
  OBVIOUS
<1>5. \A t \in SUBSET s : t # s => g[t] = h[t]
  BY <1>3
<1>6. g[s] = IF s = {} THEN 0 ELSE F[Picked(s)] + g[s \ {Picked(s)}]
  BY <1>4 DEF SumsUp
<1>7. h[s] = IF s = {} THEN 0 ELSE F[Picked(s)] + h[s \ {Picked(s)}]
  BY <1>4 DEF SumsUp
<1> HIDE DEF K
<1> QED
  BY <1>4, <1>5, <1>6, <1>7, PickedIsIn

LEMMA SumExists ==
  ASSUME NEW F, NEW S, IsFiniteSet(S)
  PROVE  \E g : SumsUp(g, F, S)
<1> DEFINE K == {s \in SUBSET S : ~\E g : SumsUp(g, F, s)}
           G(t) == CHOOSE g : SumsUp(g, F, t)
           Rest(t) == t \ {Picked(t)}
<1>1. SUFFICES ASSUME K # {} PROVE FALSE
  OBVIOUS
<1>2. PICK s \in K : \A t \in K : t \subseteq s => t = s
  <2>1. K \subseteq SUBSET S
    OBVIOUS
  <2> HIDE DEF K
  <2> QED
    BY <1>1, <2>1, LeastSubset
<1> DEFINE L == [t \in SUBSET s |-> IF t = {} THEN 0 ELSE F[Picked(t)] + G(Rest(t))[Rest(t)]]
<1>3. ASSUME NEW t \in SUBSET s, t # s PROVE SumsUp(G(t), F, t)
  <2>1. \E g : SumsUp(g, F, t)
    BY <1>2, <1>3
  <2> QED
    BY <2>1, Zenon
<1>4. \A t \in SUBSET s : t # {} => Rest(t) \in SUBSET s /\ Rest(t) # s /\ Rest(t) \in SUBSET t
  BY PickedIsIn
<1>5. ASSUME NEW u \in SUBSET s, u # s PROVE L[u] = G(u)[u]
  <2>1. SumsUp(G(u), F, u)
    BY <1>3, <1>5
  <2>2. L[u] = IF u = {} THEN 0 ELSE F[Picked(u)] + G(Rest(u))[Rest(u)]
    OBVIOUS
  <2> HIDE DEF L, G, K
  <2>3. G(u)[u] = IF u = {} THEN 0 ELSE F[Picked(u)] + G(u)[Rest(u)]
    BY <2>1 DEF SumsUp
  <2>4. ASSUME u # {} PROVE G(Rest(u))[Rest(u)] = G(u)[Rest(u)]
    <3>1. SumsUp(G(Rest(u)), F, Rest(u)) /\ Rest(u) \subseteq u
      BY <1>3, <1>4, <2>4
    <3>2. IsFiniteSet(u)
      BY <1>2, FS_Subset DEF K
    <3> HIDE DEF Rest
    <3> QED
      BY <3>1, <3>2, <2>1, SumsAgree
  <2> QED
    BY <2>2, <2>3, <2>4
<1>6. SumsUp(L, F, s)
  <2>1. \A t \in SUBSET s : t # {} => L[Rest(t)] = G(Rest(t))[Rest(t)]
    BY <1>4, <1>5
  <2>2. \A t \in SUBSET s :
          (IF t = {} THEN 0 ELSE F[Picked(t)] + G(Rest(t))[Rest(t)])
            = (IF t = {} THEN 0 ELSE F[Picked(t)] + L[Rest(t)])
    <3> HIDE DEF L, G, Rest
    <3> QED
      BY <2>1
  <2>3. L = [t \in SUBSET s |-> IF t = {} THEN 0 ELSE F[Picked(t)] + G(Rest(t))[Rest(t)]]
    OBVIOUS
  <2>4. L = [t \in SUBSET s |-> IF t = {} THEN 0 ELSE F[Picked(t)] + L[Rest(t)]]
    <3> HIDE DEF L, G, Rest
    <3> QED
      BY <2>2, <2>3
  <2> QED
    BY <2>4 DEF SumsUp
<1> QED
  BY <1>2, <1>6

LEMMA SumIsInt ==
  ASSUME NEW F, NEW S, IsFiniteSet(S), NEW g, SumsUp(g, F, S),
         \A x \in S : F[x] \in Int
  PROVE  \A s \in SUBSET S : g[s] \in Int
<1> DEFINE K == {s \in SUBSET S : g[s] \notin Int}
<1>1. SUFFICES ASSUME K # {} PROVE FALSE
  OBVIOUS
<1>2. PICK s \in K : \A t \in K : t \subseteq s => t = s
  <2>1. K \subseteq SUBSET S
    OBVIOUS
  <2> HIDE DEF K
  <2> QED
    BY <1>1, <2>1, LeastSubset
<1>3. g[s] = IF s = {} THEN 0 ELSE F[Picked(s)] + g[s \ {Picked(s)}]
  BY <1>2 DEF SumsUp
<1>4. CASE s = {}
  BY <1>3, <1>4
<1>5. CASE s # {}
  <2>1. Picked(s) \in S /\ g[s \ {Picked(s)}] \in Int
    BY <1>2, <1>5, PickedIsIn
  <2> QED
    BY <1>3, <1>5, <2>1
<1> QED
  BY <1>4, <1>5

LEMMA SumInAnyOrder ==
  ASSUME NEW F, NEW S, IsFiniteSet(S), NEW g, SumsUp(g, F, S),
         \A x \in S : F[x] \in Int
  PROVE  \A s \in SUBSET S : \A x \in s : g[s] = F[x] + g[s \ {x}]
<1> DEFINE K == {s \in SUBSET S : \E x \in s : g[s] # F[x] + g[s \ {x}]}
<1>1. SUFFICES ASSUME K # {} PROVE FALSE
  OBVIOUS
<1>2. PICK s \in K : \A t \in K : t \subseteq s => t = s
  <2>1. K \subseteq SUBSET S
    OBVIOUS
  <2> HIDE DEF K
  <2> QED
    BY <1>1, <2>1, LeastSubset
<1>3. PICK x \in s : g[s] # F[x] + g[s \ {x}]
  BY <1>2
<1> DEFINE p == Picked(s)
<1>4. g[s] = F[p] + g[s \ {p}] /\ p \in s
  BY <1>2, <1>3, PickedIsIn DEF SumsUp
<1>5. p # x
  BY <1>3, <1>4
<1> HIDE DEF p
<1>6. \A t \in SUBSET s : t # s => \A y \in t : g[t] = F[y] + g[t \ {y}]
  BY <1>2
<1>7. g[s \ {p}] = F[x] + g[(s \ {p}) \ {x}]
  BY <1>3, <1>4, <1>5, <1>6
<1>8. g[s \ {x}] = F[p] + g[(s \ {x}) \ {p}]
  BY <1>3, <1>4, <1>5, <1>6
<1>9. (s \ {p}) \ {x} = (s \ {x}) \ {p}
  OBVIOUS
<1>10. F[p] \in Int /\ F[x] \in Int /\ g[(s \ {x}) \ {p}] \in Int
  <2>1. (s \ {x}) \ {p} \in SUBSET S /\ p \in S /\ x \in S
    BY <1>2, <1>4
  <2> QED
    BY <2>1, SumIsInt
<1> DEFINE a == F[p]
           b == F[x]
           c == g[(s \ {x}) \ {p}]
<1>11. a \in Int /\ b \in Int /\ c \in Int
  BY <1>10
<1>12. g[s] = a + (b + c) /\ g[s \ {x}] = a + c
  BY <1>4, <1>7, <1>8, <1>9
<1>13. g[s] # b + g[s \ {x}]
  BY <1>3
<1> HIDE DEF K, a, b, c
<1> QED
  BY <1>11, <1>12, <1>13

SumOf(F, S) == MapThenSumSet(LAMBDA x : F[x], S)

LEMMA SumIsTaken ==
  ASSUME NEW F, NEW S, IsFiniteSet(S)
  PROVE  \E g : SumsUp(g, F, S) /\ SumOf(F, S) = g[S]
<1> DEFINE it == CHOOSE g : SumsUp(g, F, S)
<1>1. SumsUp(it, F, S)
  BY SumExists, Zenon
<1>2. SumOf(F, S) = it[S]
  BY DEF SumOf, MapThenSumSet, MapThenFoldSet, SumsUp, Picked
<1> QED
  BY <1>1, <1>2

LEMMA SumOfNothing ==
  ASSUME NEW F
  PROVE  SumOf(F, {}) = 0
<1>1. PICK g : SumsUp(g, F, {}) /\ SumOf(F, {}) = g[{}]
  BY SumIsTaken, FS_EmptySet
<1> QED
  BY <1>1 DEF SumsUp

LEMMA SumOfOneMore ==
  ASSUME NEW F, NEW S, IsFiniteSet(S), NEW e, e \notin S,
         \A x \in S \cup {e} : F[x] \in Int
  PROVE  /\ SumOf(F, S) \in Int
         /\ SumOf(F, S \cup {e}) = SumOf(F, S) + F[e]
<1>1. PICK g : SumsUp(g, F, S) /\ SumOf(F, S) = g[S]
  BY SumIsTaken
<1>2. IsFiniteSet(S \cup {e})
  BY FS_AddElement
<1>3. PICK h : SumsUp(h, F, S \cup {e}) /\ SumOf(F, S \cup {e}) = h[S \cup {e}]
  BY <1>2, SumIsTaken
<1>4. h[S \cup {e}] = F[e] + h[(S \cup {e}) \ {e}]
  BY <1>2, <1>3, SumInAnyOrder
<1>5. (S \cup {e}) \ {e} = S
  OBVIOUS
<1>6. g[S] = h[S]
  <2> DEFINE T == S \cup {e}
  <2>1. IsFiniteSet(T) /\ S \subseteq T /\ S \in SUBSET S
    BY <1>2
  <2>2. SumsUp(g, F, S) /\ SumsUp(h, F, T)
    BY <1>1, <1>3
  <2> HIDE DEF T
  <2> QED
    BY <2>1, <2>2, SumsAgree
<1>7. g[S] \in Int /\ F[e] \in Int
  BY <1>1, SumIsInt
<1>8. SumOf(F, S \cup {e}) = F[e] + g[S]
  BY <1>3, <1>4, <1>5, <1>6
<1>9. F[e] + g[S] = g[S] + F[e]
  BY <1>7
<1> QED
  BY <1>1, <1>7, <1>8, <1>9

LEMMA AmountsAreAdded ==
  ASSUME NEW S, NEW T, IsFiniteSet(T), S \subseteq T
  PROVE  AmountSum(S) = SumOf([e \in T |-> e.amount], S)
<1> DEFINE F == [e \in T |-> e.amount]
           sums(g) == g = [s \in SUBSET S |-> IF s = {} THEN 0 ELSE Picked(s).amount + g[s \ {Picked(s)}]]
<1>1. \A g : SumsUp(g, F, S) <=> sums(g)
  <2> SUFFICES ASSUME NEW g PROVE SumsUp(g, F, S) <=> sums(g)
    OBVIOUS
  <2>1. \A s \in SUBSET S : (IF s = {} THEN 0 ELSE F[Picked(s)] + g[s \ {Picked(s)}])
                            = (IF s = {} THEN 0 ELSE Picked(s).amount + g[s \ {Picked(s)}])
    BY PickedIsIn
  <2> HIDE DEF F
  <2> QED
    BY <2>1 DEF SumsUp
<1>2. AmountSum(S) = (CHOOSE g : sums(g))[S]
  BY DEF AmountSum, MapThenSumSet, MapThenFoldSet, Picked
<1>3. SumOf(F, S) = (CHOOSE g : SumsUp(g, F, S))[S]
  <2> HIDE DEF F
  <2> QED
    BY DEF SumOf, MapThenSumSet, MapThenFoldSet, SumsUp, Picked
<1>4. (CHOOSE g : sums(g)) = (CHOOSE g : SumsUp(g, F, S))
  <2> HIDE DEF F
  <2> QED
    BY <1>1, ZenonT(60)
<1> QED
  BY <1>2, <1>3, <1>4

LEMMA AmountsOfNothing == AmountSum({}) = 0
  BY AmountsAreAdded, SumOfNothing, FS_EmptySet

LEMMA AmountsOfOneMore ==
  ASSUME NEW S, IsFiniteSet(S), NEW e, e \notin S, \A x \in S \cup {e} : x.amount \in Int
  PROVE  /\ AmountSum(S) \in Int
         /\ AmountSum(S \cup {e}) = AmountSum(S) + e.amount
<1> DEFINE T == S \cup {e}
           F == [x \in T |-> x.amount]
<1>1. IsFiniteSet(T)
  BY FS_AddElement
<1>2. (\A x \in T : F[x] \in Int) /\ F[e] = e.amount
  OBVIOUS
<1>3. AmountSum(S) = SumOf(F, S) /\ AmountSum(T) = SumOf(F, T)
  BY <1>1, AmountsAreAdded
<1> HIDE DEF F
<1> QED
  BY <1>2, <1>3, SumOfOneMore

-----------------------------------------------------------------------------
(* The wallet.                                                               *)

IsTopup(e) ==
  \E i \in TopupIntents, t \in Transfers : e.key = TopupKey(i, t) /\ e.kind = "CREDIT"
IsPurchaseOf(e, o) ==
  /\ \E k \in Requests : e.key = PurchaseKey(o, k)
  /\ e.kind = "DEBIT" /\ e.customer = BuyerOf[o]
IsRefundOf(e, o) ==
  e.key = RefundKey(o) /\ e.kind = "CREDIT" /\ e.customer = BuyerOf[o]

\* An entry is a top-up, or a purchase or a refund of one order of its customer.
EntriesAreKnown ==
  /\ IsFiniteSet(ledger)
  /\ \A e \in ledger :
       \/ IsTopup(e)
       \/ \E o \in WalletOrders : IsPurchaseOf(e, o) \/ IsRefundOf(e, o)

\* A row that was written has its customer, its amount and its intent.
RowsAreFilled ==
  /\ \A i \in TopupIntents :
       topup[i].status # "none" => topup[i].customer \in Customers /\ topup[i].amount \in Amounts
  /\ \A t \in Transfers :
       transfer[t] # NotMade => /\ transfer[t].content \in TopupIntents
                                /\ transfer[t].amount \in Amounts
                                /\ topup[transfer[t].content].status # "none"
  /\ \A p \in WalletTxns :
       wtxn[p].at = "presenting" => wtxn[p].customer \in Customers /\ wtxn[p].amount \in Amounts

\* What was read under the lock on an intent still holds at the credit, and no two
\* transactions hold one lock.
LocksAreHeld ==
  /\ \A p \in WalletTxns :
       wtxn[p].at = "crediting" =>
         /\ wtxn[p].transfer \in Transfers
         /\ transfer[wtxn[p].transfer] # NotMade
         /\ transfer[wtxn[p].transfer].content = wtxn[p].intent
         /\ transfer[wtxn[p].transfer].recorded # "topup lane"
         /\ Settles(wtxn[p].transfer)
  /\ \A p, q \in WalletTxns :
       (wtxn[p].at = "crediting" /\ wtxn[q].at = "crediting" /\ wtxn[p].intent = wtxn[q].intent)
         => p = q

PurchasesArePaid ==
  \A e \in ledger, o \in WalletOrders : IsPurchaseOf(e, o) => order[o] # "PENDING_PAYMENT"

WalletInv ==
  /\ WalletTypeOK /\ EntriesAreKnown /\ RowsAreFilled /\ LocksAreHeld /\ PurchasesArePaid
  /\ TopupCreditsAreBacked /\ RefundsMirrorPurchases /\ BalanceIsLedger

LEMMA InitWallet == WalletInit => WalletInv
<1> SUFFICES ASSUME WalletInit PROVE WalletInv
  OBVIOUS
<1> USE DEF WalletInit
<1>1. WalletTypeOK
  BY WalletAssumption DEF WalletTypeOK, NoTopup, NotMade, NoTxn, TopupStatuses, Live, Ages,
                          OrderStatuses
<1>2. EntriesAreKnown
  BY FS_EmptySet DEF EntriesAreKnown
<1>3. RowsAreFilled /\ LocksAreHeld /\ PurchasesArePaid
  BY DEF RowsAreFilled, LocksAreHeld, PurchasesArePaid, NoTopup, NoTxn
<1>4. TopupCreditsAreBacked /\ RefundsMirrorPurchases
  BY DEF TopupCreditsAreBacked, RefundsMirrorPurchases, CreditsWith, KeyUsed
<1>5. BalanceIsLedger
  <2>1. \A c \in Customers, kind \in {"CREDIT", "DEBIT"} : EntriesOf(c, kind) = {}
    BY DEF EntriesOf
  <2> QED
    BY <2>1, AmountsOfNothing DEF BalanceIsLedger
<1> QED
  BY <1>1, <1>2, <1>3, <1>4, <1>5 DEF WalletInv

-----------------------------------------------------------------------------
(* What a step can do to the rows.                                           *)

\* A top-up that was begun keeps its customer and amount, and once decided it stays so.
LEMMA TopupMoves ==
  ASSUME WalletInv, WalletNext, NEW i \in TopupIntents
  PROVE  /\ topup[i].status # "none" =>
              /\ topup'[i].status # "none"
              /\ topup'[i].customer = topup[i].customer
              /\ topup'[i].amount = topup[i].amount
         /\ topup[i].status \in {"SUCCEEDED", "NEEDS_REVIEW"} =>
              topup'[i].status \in {"SUCCEEDED", "NEEDS_REVIEW"}
         /\ topup'[i].status # "none" =>
              topup'[i].customer \in Customers /\ topup'[i].amount \in Amounts
<1> DEFINE Goal == /\ topup[i].status # "none" =>
                        /\ topup'[i].status # "none"
                        /\ topup'[i].customer = topup[i].customer
                        /\ topup'[i].amount = topup[i].amount
                   /\ topup[i].status \in {"SUCCEEDED", "NEEDS_REVIEW"} =>
                        topup'[i].status \in {"SUCCEEDED", "NEEDS_REVIEW"}
                   /\ topup'[i].status # "none" =>
                        topup'[i].customer \in Customers /\ topup'[i].amount \in Amounts
<1> USE DEF WalletInv
<1>0. topup \in [TopupIntents -> [status : TopupStatuses, customer : Customers \cup {NoCustomer},
                                  amount : Amounts \cup {0}, age : Ages]]
  BY DEF WalletTypeOK
<1>1. topup[i].status # "none" => topup[i].customer \in Customers /\ topup[i].amount \in Amounts
  BY DEF RowsAreFilled
<1>2. ASSUME UNCHANGED topup PROVE Goal
  BY <1>1, <1>2
<1>3. ASSUME NEW j \in TopupIntents, NEW s \in TopupStatuses, s # "none",
             topup[j].status # "none",
             topup[j].status \in {"SUCCEEDED", "NEEDS_REVIEW"} =>
               s \in {"SUCCEEDED", "NEEDS_REVIEW"},
             topup'[i] = IF i = j THEN [topup[i] EXCEPT !.status = s] ELSE topup[i]
      PROVE Goal
  <2>1. CASE i = j
    <3>1. topup'[i] = [status |-> s, customer |-> topup[i].customer, amount |-> topup[i].amount,
                       age |-> topup[i].age]
      BY <1>0, <1>3, <2>1
    <3> QED
      BY <1>1, <1>3, <2>1, <3>1
  <2>2. CASE i # j
    BY <1>1, <1>3, <2>2
  <2> QED
    BY <2>1, <2>2
<1>4. ASSUME NEW I, I \subseteq {j \in TopupIntents : topup[j].status \in Live},
             topup'[i] = Expire(I)[i]
      PROVE Goal
  <2>1. i \in I => topup[i].status \in Live
    BY <1>4
  <2>2. topup'[i] = IF i \in I THEN [topup[i] EXCEPT !.status = "EXPIRED"] ELSE topup[i]
    BY <1>4 DEF Expire
  <2> QED
    <3>1. CASE i \in I
      <4>1. topup'[i] = [topup[i] EXCEPT !.status = "EXPIRED"] /\ topup[i].status \in Live
        BY <2>1, <2>2, <3>1
      <4> QED
        BY <1>3, <4>1 DEF Live, TopupStatuses
    <3>2. CASE i \notin I
      BY <1>1, <2>2, <3>2
    <3> QED
      BY <3>1, <3>2
<1>5. ASSUME NEW p \in WalletTxns, PresentAgain(p) PROVE Goal
  <2>1. topup' = Expire(Lapsed(wtxn[p].customer))
    BY <1>5 DEF PresentAgain
  <2>2. Lapsed(wtxn[p].customer) \subseteq {j \in TopupIntents : topup[j].status \in Live}
    BY DEF Lapsed, LiveOf
  <2> QED
    BY <1>4, <2>1, <2>2
<1>6. ASSUME NEW c \in Customers, CancelTopup(c) PROVE Goal
  BY <1>4, <1>6 DEF CancelTopup, LiveOf
<1>7. ASSUME NEW p \in WalletTxns, NEW j \in TopupIntents, PresentNew(p, j) PROVE Goal
  <2>1. wtxn[p].customer \in Customers /\ wtxn[p].amount \in Amounts
    BY <1>7 DEF PresentNew, RowsAreFilled
  <2>2. topup' = [Expire(LiveOf(wtxn[p].customer)) EXCEPT ![j] =
                    [status |-> "PRESENTED", customer |-> wtxn[p].customer,
                     amount |-> wtxn[p].amount, age |-> "fresh"]] /\ topup[j].status = "none"
    BY <1>7 DEF PresentNew
  <2>3. CASE i = j
    BY <2>1, <2>2, <2>3 DEF Expire
  <2>4. CASE i # j
    BY <1>4, <2>2, <2>4 DEF Expire, LiveOf
  <2> QED
    BY <2>3, <2>4
<1>8. ASSUME NEW j \in TopupIntents, Lapse(j) PROVE Goal
  <2>1. CASE i = j
    <3>1. PICK a \in Ages : topup'[i] = [topup[i] EXCEPT !.age = a]
      BY <1>0, <1>8, <2>1 DEF Lapse, Ages
    <3>2. topup'[i] = [status |-> topup[i].status, customer |-> topup[i].customer,
                       amount |-> topup[i].amount, age |-> a]
      BY <1>0, <3>1
    <3> QED
      BY <1>1, <3>2
  <2>2. CASE i # j
    BY <1>0, <1>1, <1>8, <2>2 DEF Lapse
  <2> QED
    BY <2>1, <2>2
<1>9. ASSUME NEW t \in Transfers, EvidenceToReview(t) PROVE Goal
  <2>1. /\ transfer[t].content \in TopupIntents
        /\ topup[transfer[t].content].status # "none"
        /\ topup' = [topup EXCEPT ![transfer[t].content].status = "NEEDS_REVIEW"]
    BY <1>9 DEF EvidenceToReview, RowsAreFilled, NewReport
  <2> QED
    BY <1>0, <1>3, <2>1 DEF TopupStatuses
<1>10. ASSUME NEW p \in WalletTxns, EvidenceCredit(p) PROVE Goal
  <2>1. /\ wtxn[p].intent \in TopupIntents
        /\ topup[wtxn[p].intent].status # "none"
        /\ topup' = [topup EXCEPT ![wtxn[p].intent].status = "SUCCEEDED"]
    BY <1>10 DEF EvidenceCredit, LocksAreHeld, RowsAreFilled
  <2> QED
    BY <1>0, <1>3, <2>1 DEF TopupStatuses
<1> QED
  BY <1>2, <1>5, <1>6, <1>7, <1>8, <1>9, <1>10
  DEF WalletNext, PresentLock, EvidenceLock, WalletAbort, Pay, Reconcile, Purchase, PaidByBank,
      RequestRefund, Refund

\* A transfer that was made keeps what it says, and one that was recorded its lane.
LEMMA TransferMoves ==
  ASSUME WalletInv, WalletNext, NEW t \in Transfers
  PROVE  /\ transfer[t] # NotMade =>
              /\ transfer'[t] # NotMade
              /\ transfer'[t].content = transfer[t].content
              /\ transfer'[t].amount = transfer[t].amount
              /\ transfer'[t].late = transfer[t].late
         /\ transfer[t].recorded = "topup lane" => transfer'[t] = transfer[t]
         /\ transfer'[t] # NotMade /\ transfer[t] = NotMade =>
              /\ transfer'[t].content \in TopupIntents
              /\ transfer'[t].amount \in Amounts
              /\ topup[transfer'[t].content].status # "none"
<1> DEFINE Goal == /\ transfer[t] # NotMade =>
                        /\ transfer'[t] # NotMade
                        /\ transfer'[t].content = transfer[t].content
                        /\ transfer'[t].amount = transfer[t].amount
                        /\ transfer'[t].late = transfer[t].late
                   /\ transfer[t].recorded = "topup lane" => transfer'[t] = transfer[t]
                   /\ transfer'[t] # NotMade /\ transfer[t] = NotMade =>
                        /\ transfer'[t].content \in TopupIntents
                        /\ transfer'[t].amount \in Amounts
                        /\ topup[transfer'[t].content].status # "none"
<1> USE DEF WalletInv
<1>0. transfer \in [Transfers -> [content : TopupIntents \cup {NoIntent},
                                  amount : Amounts \cup {0}, late : BOOLEAN,
                                  recorded : {"none", "topup lane", "payment lane"}]]
  BY DEF WalletTypeOK
<1>1. ASSUME UNCHANGED transfer PROVE Goal
  BY <1>1
<1>2. ASSUME NEW s \in Transfers, NEW i \in TopupIntents, NEW a \in Amounts, Pay(s, i, a)
      PROVE Goal
  <2>1. /\ transfer[s] = NotMade /\ topup[i].status # "none"
        /\ transfer' = [transfer EXCEPT ![s] =
             [content |-> i, amount |-> a, late |-> topup[i].age = "late", recorded |-> "none"]]
    BY <1>2 DEF Pay
  <2>2. CASE s = t
    <3>1. transfer'[t] = [content |-> i, amount |-> a, late |-> topup[i].age = "late",
                          recorded |-> "none"]
      BY <1>0, <2>1, <2>2
    <3>2. transfer'[t] # NotMade /\ transfer[t].recorded = "none"
      BY <2>1, <2>2, <3>1, WalletAssumption DEF NotMade
    <3> QED
      BY <2>1, <2>2, <3>1, <3>2
  <2>3. CASE s # t
    BY <1>0, <2>1, <2>3
  <2> QED
    BY <2>2, <2>3
<1>3. ASSUME NEW s \in Transfers, NEW lane \in {"topup lane", "payment lane"},
             transfer[s] # NotMade, transfer[s].recorded # "topup lane",
             transfer' = [transfer EXCEPT ![s].recorded = lane]
      PROVE Goal
  BY <1>0, <1>3 DEF NotMade
<1>4. ASSUME NEW s \in Transfers, EvidenceToReview(s) \/ Reconcile(s) PROVE Goal
  BY <1>3, <1>4 DEF EvidenceToReview, Reconcile, NewReport
<1>5. ASSUME NEW p \in WalletTxns, EvidenceCredit(p) PROVE Goal
  BY <1>3, <1>5 DEF EvidenceCredit, LocksAreHeld
<1> QED
  BY <1>1, <1>2, <1>4, <1>5
  DEF WalletNext, PresentLock, PresentAgain, PresentNew, EvidenceLock, WalletAbort, CancelTopup,
      Lapse, Purchase, PaidByBank, RequestRefund, Refund

\* A transaction's record after a step: the one it had, none, or the lock it takes.
LEMMA TxnMoves ==
  ASSUME WalletInv, WalletNext, NEW p \in WalletTxns
  PROVE  \/ wtxn'[p] = wtxn[p] \/ wtxn'[p] = NoTxn
         \/ \E c \in Customers, a \in Amounts :
              /\ PresentLock(p, c, a)
              /\ wtxn'[p] = [at |-> "presenting", customer |-> c, amount |-> a,
                             intent |-> NoIntent, transfer |-> NoTransfer]
         \/ \E t \in Transfers :
              /\ EvidenceLock(p, t)
              /\ wtxn'[p] = [at |-> "crediting", customer |-> NoCustomer, amount |-> 0,
                             intent |-> transfer[t].content, transfer |-> t]
<1> DEFINE Goal == \/ wtxn'[p] = wtxn[p] \/ wtxn'[p] = NoTxn
                   \/ \E c \in Customers, a \in Amounts :
                        /\ PresentLock(p, c, a)
                        /\ wtxn'[p] = [at |-> "presenting", customer |-> c, amount |-> a,
                                       intent |-> NoIntent, transfer |-> NoTransfer]
                   \/ \E t \in Transfers :
                        /\ EvidenceLock(p, t)
                        /\ wtxn'[p] = [at |-> "crediting", customer |-> NoCustomer, amount |-> 0,
                                       intent |-> transfer[t].content, transfer |-> t]
<1>0. wtxn \in [WalletTxns -> [at : {"idle", "presenting", "crediting"},
                               customer : Customers \cup {NoCustomer}, amount : Amounts \cup {0},
                               intent : TopupIntents \cup {NoIntent},
                               transfer : Transfers \cup {NoTransfer}]]
  BY DEF WalletInv, WalletTypeOK
<1>1. ASSUME UNCHANGED wtxn PROVE Goal
  BY <1>1
<1>2. ASSUME NEW q \in WalletTxns, End(q) PROVE Goal
  BY <1>0, <1>2 DEF End
<1>3. ASSUME NEW q \in WalletTxns, NEW c \in Customers, NEW a \in Amounts, PresentLock(q, c, a)
      PROVE Goal
  <2>1. wtxn' = [wtxn EXCEPT ![q] = [NoTxn EXCEPT !.at = "presenting", !.customer = c,
                                                  !.amount = a]]
    BY <1>3 DEF PresentLock
  <2>2. CASE p = q
    <3>1. wtxn'[p] = [at |-> "presenting", customer |-> c, amount |-> a, intent |-> NoIntent,
                      transfer |-> NoTransfer]
      BY <1>0, <2>1, <2>2 DEF NoTxn
    <3> QED
      BY <1>3, <2>2, <3>1
  <2>3. CASE p # q
    BY <1>0, <2>1, <2>3
  <2> QED
    BY <2>2, <2>3
<1>4. ASSUME NEW q \in WalletTxns, NEW t \in Transfers, EvidenceLock(q, t) PROVE Goal
  <2>1. wtxn' = [wtxn EXCEPT ![q] = [NoTxn EXCEPT !.at = "crediting",
                                       !.intent = transfer[t].content, !.transfer = t]]
    BY <1>4 DEF EvidenceLock
  <2>2. CASE p = q
    <3>1. wtxn'[p] = [at |-> "crediting", customer |-> NoCustomer, amount |-> 0,
                      intent |-> transfer[t].content, transfer |-> t]
      BY <1>0, <2>1, <2>2 DEF NoTxn
    <3> QED
      BY <1>4, <2>2, <3>1
  <2>3. CASE p # q
    BY <1>0, <2>1, <2>3
  <2> QED
    BY <2>2, <2>3
<1> QED
  BY <1>1, <1>2, <1>3, <1>4
  DEF WalletNext, PresentAgain, PresentNew, EvidenceCredit, EvidenceToReview, WalletAbort,
      CancelTopup, Lapse, Pay, Reconcile, Purchase, PaidByBank, RequestRefund, Refund

\* An order that has left PENDING_PAYMENT never returns, and REFUNDED is the refund's.
LEMMA OrderMoves ==
  ASSUME WalletInv, WalletNext, NEW o \in WalletOrders
  PROVE  /\ order'[o] \in OrderStatuses
         /\ order'[o] = "PENDING_PAYMENT" => order[o] = "PENDING_PAYMENT"
         /\ order'[o] = "REFUNDED" => order[o] = "REFUNDED" \/ Refund(o)
         /\ order[o] = "REFUNDED" => order'[o] = "REFUNDED"
<1> DEFINE Goal == /\ order'[o] \in OrderStatuses
                   /\ order'[o] = "PENDING_PAYMENT" => order[o] = "PENDING_PAYMENT"
                   /\ order'[o] = "REFUNDED" => order[o] = "REFUNDED" \/ Refund(o)
                   /\ order[o] = "REFUNDED" => order'[o] = "REFUNDED"
<1>0. order \in [WalletOrders -> OrderStatuses]
  BY DEF WalletInv, WalletTypeOK
<1>1. ASSUME UNCHANGED order PROVE Goal
  BY <1>0, <1>1
<1>2. ASSUME NEW q \in WalletOrders,
             \/ \E k \in Requests : Purchase(q, k)
             \/ PaidByBank(q) \/ RequestRefund(q) \/ Refund(q)
      PROVE Goal
  <2>1. CASE q = o
    BY <1>0, <1>2, <2>1 DEF Purchase, PaidByBank, RequestRefund, Refund, OrderStatuses
  <2>2. CASE q # o
    BY <1>0, <1>2, <2>2 DEF Purchase, PaidByBank, RequestRefund, Refund
  <2> QED
    BY <2>1, <2>2
<1> QED
  BY <1>1, <1>2
  DEF WalletNext, PresentLock, PresentAgain, PresentNew, EvidenceLock, EvidenceCredit,
      EvidenceToReview, WalletAbort, CancelTopup, Lapse, Pay, Reconcile

-----------------------------------------------------------------------------
(* What a step can do to the ledger.                                         *)

\* The entry is stored with its effect on the balance, which covers it.
Posted(e) ==
  /\ e \in Entries /\ ~KeyUsed(e.customer, e.key)
  /\ ledger' = ledger \cup {e}
  /\ e.kind = "DEBIT" => balance[e.customer] >= e.amount
  /\ balance' = [balance EXCEPT ![e.customer] = IF e.kind = "CREDIT" THEN @ + e.amount
                                                ELSE @ - e.amount]

\* A transfer that was read under its locks, credited to its intent's customer.
TopupPosted(e, i, t) ==
  /\ e.key = TopupKey(i, t) /\ e.kind = "CREDIT"
  /\ topup[i].status \in Live /\ topup'[i].status = "SUCCEEDED"
  /\ e.customer = topup[i].customer /\ e.amount = transfer[t].amount
  /\ transfer[t] # NotMade /\ transfer[t].content = i /\ ~transfer[t].late
  /\ transfer[t].recorded # "topup lane" /\ transfer'[t].recorded = "topup lane"
  /\ UNCHANGED order

PurchasePosted(e, o) ==
  IsPurchaseOf(e, o) /\ order[o] = "PENDING_PAYMENT" /\ order'[o] = "PAID"

RefundPosted(e, o) ==
  /\ IsRefundOf(e, o) /\ order[o] = "REFUND_PENDING" /\ order'[o] = "REFUNDED"
  /\ \A q \in WalletOrders : q # o => order'[q] = order[q]
  /\ \E f \in ledger : IsPurchaseOf(f, o) /\ f.amount = e.amount

LEMMA PostIsPosted ==
  ASSUME WalletInv, NEW c \in Customers, NEW kind \in {"CREDIT", "DEBIT"},
         NEW amount \in Nat \ {0}, NEW key \in Keys, ~KeyUsed(c, key), Post(c, kind, amount, key),
         kind = "DEBIT" => balance[c] >= amount
  PROVE  \E e : /\ Posted(e)
                /\ e.customer = c /\ e.kind = kind /\ e.amount = amount /\ e.key = key
<1> DEFINE e == [customer |-> c, kind |-> kind, amount |-> amount, key |-> key,
                 counter |-> CounterAccount(key)]
<1>1. CounterAccount(key) \in {"BANK_SETTLEMENT", "SHOP_REVENUE", "REFUND_EXPENSE"}
  BY DEF CounterAccount, Keys, TopupKey, PurchaseKey, RefundKey
<1>2. e \in Entries
  BY <1>1 DEF Entries
<1>3. e.customer = c /\ e.kind = kind /\ e.amount = amount /\ e.key = key
  OBVIOUS
<1>4. /\ ledger' = ledger \cup {e}
      /\ balance' = [balance EXCEPT ![c] = IF kind = "CREDIT" THEN @ + amount ELSE @ - amount]
  BY DEF Post
<1> HIDE DEF e
<1> QED
  BY <1>2, <1>3, <1>4 DEF Posted

LEMMA CreditPosts ==
  ASSUME WalletInv, NEW p \in WalletTxns, EvidenceCredit(p)
  PROVE  \E e : /\ Posted(e)
                /\ \E i \in TopupIntents, t \in Transfers : TopupPosted(e, i, t)
<1> DEFINE i == wtxn[p].intent
           t == wtxn[p].transfer
           c == topup[i].customer
<1> USE DEF WalletInv
<1>1. /\ t \in Transfers /\ i \in TopupIntents /\ transfer[t] # NotMade
      /\ transfer[t].content = i /\ transfer[t].recorded # "topup lane" /\ ~transfer[t].late
      /\ topup[i].status \in Live /\ transfer[t].amount = topup[i].amount
  BY DEF EvidenceCredit, LocksAreHeld, RowsAreFilled, Settles
<1>2. c \in Customers /\ topup[i].amount \in Nat \ {0}
  BY <1>1, WalletAssumption DEF RowsAreFilled, Live
<1>3. /\ topup' = [topup EXCEPT ![i].status = "SUCCEEDED"]
      /\ transfer' = [transfer EXCEPT ![t].recorded = "topup lane"]
      /\ Credit(c, topup[i].amount, TopupKey(i, t)) /\ UNCHANGED order
  BY DEF EvidenceCredit
<1>4. topup'[i].status = "SUCCEEDED" /\ transfer'[t].recorded = "topup lane"
  <2>1. /\ topup \in [TopupIntents -> [status : TopupStatuses,
                       customer : Customers \cup {NoCustomer}, amount : Amounts \cup {0}, age : Ages]]
        /\ transfer \in [Transfers -> [content : TopupIntents \cup {NoIntent},
                          amount : Amounts \cup {0}, late : BOOLEAN,
                          recorded : {"none", "topup lane", "payment lane"}]]
    BY DEF WalletTypeOK
  <2> HIDE DEF i, t, c
  <2>2. topup'[i] = [topup[i] EXCEPT !.status = "SUCCEEDED"]
    BY <1>1, <1>3, <2>1
  <2>3. transfer'[t] = [transfer[t] EXCEPT !.recorded = "topup lane"]
    BY <1>1, <1>3, <2>1
  <2>4. topup'[i].status = "SUCCEEDED"
    <3>1. topup[i] \in [status : TopupStatuses, customer : Customers \cup {NoCustomer},
                        amount : Amounts \cup {0}, age : Ages]
      BY <1>1, <2>1
    <3> QED
      BY <2>2, <3>1
  <2>5. transfer'[t].recorded = "topup lane"
    BY <1>1, <2>1, <2>3
  <2> QED
    BY <2>4, <2>5
<1> HIDE DEF i, t, c
<1>5. ~KeyUsed(c, TopupKey(i, t))
  <2> SUFFICES ASSUME NEW e \in ledger, e.key = TopupKey(i, t) PROVE FALSE
    BY DEF KeyUsed
  <2>1. e \in CreditsWith("topup") /\ e.key[2] = i
    BY DEF EntriesAreKnown, IsTopup, IsPurchaseOf, IsRefundOf, CreditsWith, TopupKey, PurchaseKey,
           RefundKey
  <2>2. topup[i].status \in {"SUCCEEDED", "NEEDS_REVIEW"}
    BY <2>1 DEF TopupCreditsAreBacked
  <2> QED
    BY <1>1, <2>2 DEF Live
<1>6. TopupKey(i, t) \in Keys
  <2>1. i \in TopupIntents /\ t \in Transfers
    BY <1>1
  <2> QED
    BY <2>1 DEF Keys
<1>7. PICK e : /\ Posted(e)
               /\ e.customer = c /\ e.kind = "CREDIT" /\ e.amount = topup[i].amount
               /\ e.key = TopupKey(i, t)
  <2>1. Post(c, "CREDIT", topup[i].amount, TopupKey(i, t))
    BY <1>3, <1>5 DEF Credit
  <2> QED
    BY <1>2, <1>5, <1>6, <2>1, PostIsPosted
<1>8. TopupPosted(e, i, t)
  BY <1>1, <1>3, <1>4, <1>7 DEF TopupPosted, c
<1> QED
  BY <1>1, <1>7, <1>8

LEMMA PurchasePosts ==
  ASSUME WalletInv, NEW o \in WalletOrders, NEW k \in Requests, Purchase(o, k)
  PROVE  \E e : Posted(e) /\ PurchasePosted(e, o) /\ UNCHANGED <<topup, transfer>>
<1>1. BuyerOf[o] \in Customers /\ PriceOf[o] \in Nat \ {0} /\ PurchaseKey(o, k) \in Keys
  BY WalletAssumption DEF Keys
<1>2. PICK e : /\ Posted(e)
               /\ e.customer = BuyerOf[o] /\ e.kind = "DEBIT" /\ e.amount = PriceOf[o]
               /\ e.key = PurchaseKey(o, k)
  BY <1>1, PostIsPosted DEF Purchase, Debit, Covers
<1>3. order[o] = "PENDING_PAYMENT" /\ order'[o] = "PAID"
  BY DEF Purchase, WalletInv, WalletTypeOK
<1> QED
  BY <1>2, <1>3 DEF PurchasePosted, IsPurchaseOf, Purchase

LEMMA RefundPosts ==
  ASSUME WalletInv, NEW o \in WalletOrders, Refund(o)
  PROVE  \E e : Posted(e) /\ RefundPosted(e, o) /\ UNCHANGED <<topup, transfer>>
<1>1. PICK f \in ledger :
        /\ f.customer = BuyerOf[o]
        /\ f.key \in {PurchaseKey(o, k) : k \in Requests}
        /\ Credit(BuyerOf[o], f.amount, RefundKey(o))
  BY DEF Refund
<1>2. order[o] = "REFUND_PENDING" /\ order' = [order EXCEPT ![o] = "REFUNDED"]
  BY DEF Refund
<1>3. ~KeyUsed(BuyerOf[o], RefundKey(o))
  BY <1>2 DEF WalletInv, RefundsMirrorPurchases
<1>4. IsPurchaseOf(f, o)
  BY <1>1 DEF WalletInv, EntriesAreKnown, IsTopup, IsPurchaseOf, IsRefundOf, TopupKey,
              PurchaseKey, RefundKey
<1>5. BuyerOf[o] \in Customers /\ f.amount \in Nat \ {0} /\ RefundKey(o) \in Keys
  <2>1. f \in Entries
    BY DEF WalletInv, WalletTypeOK
  <2>2. f.amount \in Nat \ {0}
    BY <2>1 DEF Entries
  <2>3. BuyerOf[o] \in Customers
    BY WalletAssumption
  <2> QED
    BY <2>2, <2>3 DEF Keys
<1>6. PICK e : /\ Posted(e)
               /\ e.customer = BuyerOf[o] /\ e.kind = "CREDIT" /\ e.amount = f.amount
               /\ e.key = RefundKey(o)
  BY <1>1, <1>3, <1>5, PostIsPosted DEF Credit
<1>7. order'[o] = "REFUNDED" /\ \A q \in WalletOrders : q # o => order'[q] = order[q]
  BY <1>2 DEF WalletInv, WalletTypeOK
<1> QED
  BY <1>2, <1>4, <1>6, <1>7 DEF RefundPosted, IsRefundOf, Refund

\* A step changes nothing in the ledger, or posts one entry of one kind.
LEMMA LedgerMoves ==
  ASSUME WalletInv, WalletNext
  PROVE  \/ UNCHANGED <<ledger, balance>> /\ \A o \in WalletOrders : ~Refund(o)
         \/ \E e : /\ Posted(e)
                   /\ \/ \E i \in TopupIntents, t \in Transfers : TopupPosted(e, i, t)
                      \/ \E o \in WalletOrders :
                           /\ PurchasePosted(e, o) \/ RefundPosted(e, o)
                           /\ UNCHANGED <<topup, transfer>>
<1> DEFINE Goal == \/ UNCHANGED <<ledger, balance>> /\ \A o \in WalletOrders : ~Refund(o)
                   \/ \E e : /\ Posted(e)
                             /\ \/ \E i \in TopupIntents, t \in Transfers : TopupPosted(e, i, t)
                                \/ \E o \in WalletOrders :
                                     /\ PurchasePosted(e, o) \/ RefundPosted(e, o)
                                     /\ UNCHANGED <<topup, transfer>>
<1>1. ASSUME NEW o \in WalletOrders, Refund(o) PROVE Goal
  BY <1>1, RefundPosts
<1>2. ASSUME NEW o \in WalletOrders, NEW k \in Requests, Purchase(o, k) PROVE Goal
  BY <1>2, PurchasePosts
<1>3. ASSUME NEW p \in WalletTxns, EvidenceCredit(p) PROVE Goal
  BY <1>3, CreditPosts
<1>4. ASSUME UNCHANGED <<ledger, balance>> PROVE Goal
  BY <1>1, <1>4
<1> QED
  BY <1>1, <1>2, <1>3, <1>4
  DEF WalletNext, PresentLock, PresentAgain, PresentNew, EvidenceLock, EvidenceToReview,
      WalletAbort, CancelTopup, Lapse, Pay, Reconcile, PaidByBank, RequestRefund

-----------------------------------------------------------------------------
(* The invariant is kept.                                                    *)

TopupRow == [status : TopupStatuses, customer : Customers \cup {NoCustomer},
             amount : Amounts \cup {0}, age : Ages]
TransferRow == [content : TopupIntents \cup {NoIntent}, amount : Amounts \cup {0},
                late : BOOLEAN, recorded : {"none", "topup lane", "payment lane"}]
TxnRow == [at : {"idle", "presenting", "crediting"}, customer : Customers \cup {NoCustomer},
           amount : Amounts \cup {0}, intent : TopupIntents \cup {NoIntent},
           transfer : Transfers \cup {NoTransfer}]

LEMMA TopupsAreTyped ==
  ASSUME WalletInv, WalletNext
  PROVE  topup' \in [TopupIntents -> TopupRow]
<1>0. topup \in [TopupIntents -> TopupRow]
  BY DEF WalletInv, WalletTypeOK, TopupRow
<1>1. \A I \in SUBSET TopupIntents : Expire(I) \in [TopupIntents -> TopupRow]
  BY <1>0 DEF Expire, TopupRow, TopupStatuses
<1>2. ASSUME NEW p \in WalletTxns, PresentAgain(p) PROVE topup' \in [TopupIntents -> TopupRow]
  BY <1>1, <1>2 DEF PresentAgain, Lapsed, LiveOf
<1>3. ASSUME NEW p \in WalletTxns, NEW i \in TopupIntents, PresentNew(p, i)
      PROVE topup' \in [TopupIntents -> TopupRow]
  <2> DEFINE row == [status |-> "PRESENTED", customer |-> wtxn[p].customer,
                     amount |-> wtxn[p].amount, age |-> "fresh"]
  <2>1. topup' = [Expire(LiveOf(wtxn[p].customer)) EXCEPT ![i] = row]
    BY <1>3 DEF PresentNew
  <2>2. row \in TopupRow
    BY <1>3 DEF PresentNew, WalletInv, RowsAreFilled, TopupRow, TopupStatuses, Live, Ages
  <2>3. Expire(LiveOf(wtxn[p].customer)) \in [TopupIntents -> TopupRow]
    BY <1>1 DEF LiveOf
  <2> HIDE DEF row
  <2> QED
    BY <2>1, <2>2, <2>3
<1>4. ASSUME NEW c \in Customers, CancelTopup(c) PROVE topup' \in [TopupIntents -> TopupRow]
  BY <1>1, <1>4 DEF CancelTopup, LiveOf
<1>5. ASSUME NEW i \in TopupIntents, Lapse(i) PROVE topup' \in [TopupIntents -> TopupRow]
  BY <1>0, <1>5 DEF Lapse, TopupRow, Ages
<1>6. ASSUME NEW t \in Transfers, EvidenceToReview(t) PROVE topup' \in [TopupIntents -> TopupRow]
  BY <1>0, <1>6, ZenonT(60) DEF EvidenceToReview, TopupRow, TopupStatuses
<1>7. ASSUME NEW p \in WalletTxns, EvidenceCredit(p) PROVE topup' \in [TopupIntents -> TopupRow]
  <2>1. topup' = [topup EXCEPT ![wtxn[p].intent].status = "SUCCEEDED"]
    BY <1>7 DEF EvidenceCredit
  <2>2. "SUCCEEDED" \in TopupStatuses
    BY DEF TopupStatuses
  <2> QED
    BY <1>0, <2>1, <2>2, ZenonT(60) DEF TopupRow
<1> QED
  BY <1>0, <1>2, <1>3, <1>4, <1>5, <1>6, <1>7
  DEF WalletNext, PresentLock, EvidenceLock, WalletAbort, Pay, Reconcile, Purchase, PaidByBank,
      RequestRefund, Refund

LEMMA TransfersAreTyped ==
  ASSUME WalletInv, WalletNext
  PROVE  transfer' \in [Transfers -> TransferRow]
<1>0. transfer \in [Transfers -> TransferRow] /\ topup \in [TopupIntents -> TopupRow]
  BY DEF WalletInv, WalletTypeOK, TransferRow, TopupRow
<1>1. ASSUME NEW t \in Transfers, NEW i \in TopupIntents, NEW a \in Amounts, Pay(t, i, a)
      PROVE transfer' \in [Transfers -> TransferRow]
  BY <1>0, <1>1 DEF Pay, TransferRow
<1>2. ASSUME NEW t, NEW lane \in {"topup lane", "payment lane"},
             transfer' = [transfer EXCEPT ![t].recorded = lane]
      PROVE transfer' \in [Transfers -> TransferRow]
  BY <1>0, <1>2 DEF TransferRow
<1>3. ASSUME NEW p \in WalletTxns, EvidenceCredit(p)
      PROVE transfer' \in [Transfers -> TransferRow]
  BY <1>2, <1>3 DEF EvidenceCredit
<1>4. ASSUME NEW t \in Transfers, EvidenceToReview(t) \/ Reconcile(t)
      PROVE transfer' \in [Transfers -> TransferRow]
  BY <1>2, <1>4 DEF EvidenceToReview, Reconcile
<1> QED
  BY <1>0, <1>1, <1>3, <1>4
  DEF WalletNext, PresentLock, PresentAgain, PresentNew, EvidenceLock, WalletAbort, CancelTopup,
      Lapse, Purchase, PaidByBank, RequestRefund, Refund

LEMMA TxnsAreTyped ==
  ASSUME WalletInv, WalletNext
  PROVE  wtxn' \in [WalletTxns -> TxnRow]
<1>0. wtxn \in [WalletTxns -> TxnRow] /\ transfer \in [Transfers -> TransferRow]
  BY DEF WalletInv, WalletTypeOK, TransferRow, TxnRow
<1>1. ASSUME NEW q \in WalletTxns, NEW row, wtxn' = [wtxn EXCEPT ![q] = row]
      PROVE wtxn' = [p \in WalletTxns |-> wtxn'[p]]
  BY <1>0, <1>1
<1>2. wtxn' = [p \in WalletTxns |-> wtxn'[p]]
  BY <1>0, <1>1
  DEF WalletNext, PresentLock, EvidenceLock, WalletAbort, PresentAgain, PresentNew, End,
      EvidenceCredit, EvidenceToReview, CancelTopup, Lapse, Pay, Reconcile, Purchase, PaidByBank,
      RequestRefund, Refund
<1>3. ASSUME NEW p \in WalletTxns PROVE wtxn'[p] \in TxnRow
  <2>1. CASE wtxn'[p] = wtxn[p]
    BY <1>0, <2>1
  <2>2. CASE wtxn'[p] = NoTxn
    BY <2>2 DEF NoTxn, TxnRow
  <2>3. ASSUME NEW c \in Customers, NEW a \in Amounts,
               wtxn'[p] = [at |-> "presenting", customer |-> c, amount |-> a,
                           intent |-> NoIntent, transfer |-> NoTransfer]
        PROVE wtxn'[p] \in TxnRow
    BY <2>3 DEF TxnRow
  <2>4. ASSUME NEW t \in Transfers,
               wtxn'[p] = [at |-> "crediting", customer |-> NoCustomer, amount |-> 0,
                           intent |-> transfer[t].content, transfer |-> t]
        PROVE wtxn'[p] \in TxnRow
    <3>1. transfer[t].content \in TopupIntents \cup {NoIntent}
      BY <1>0 DEF TransferRow
    <3> QED
      BY <2>4, <3>1 DEF TxnRow
  <2> QED
    BY <2>1, <2>2, <2>3, <2>4, TxnMoves
<1> QED
  BY <1>2, <1>3

LEMMA OrdersAreTyped ==
  ASSUME WalletInv, WalletNext
  PROVE  order' \in [WalletOrders -> OrderStatuses]
<1>0. order \in [WalletOrders -> OrderStatuses]
  BY DEF WalletInv, WalletTypeOK
<1> QED
  BY <1>0
  DEF WalletNext, PresentLock, PresentAgain, PresentNew, EvidenceLock, EvidenceCredit,
      EvidenceToReview, WalletAbort, CancelTopup, Lapse, Pay, Reconcile, Purchase, PaidByBank,
      RequestRefund, Refund, OrderStatuses

LEMMA BalancesAreTyped ==
  ASSUME WalletInv, WalletNext
  PROVE  balance' \in [Customers -> Nat] /\ ledger' \subseteq Entries
<1>0. balance \in [Customers -> Nat] /\ ledger \subseteq Entries
  BY DEF WalletInv, WalletTypeOK
<1>1. ASSUME NEW e, Posted(e) PROVE balance' \in [Customers -> Nat] /\ ledger' \subseteq Entries
  <2>1. e.customer \in Customers /\ e.amount \in Nat /\ e.kind \in {"CREDIT", "DEBIT"}
    BY <1>1 DEF Posted, Entries
  <2>2. e.kind = "DEBIT" => balance[e.customer] >= e.amount
    BY <1>1 DEF Posted
  <2>3. balance' = [balance EXCEPT ![e.customer] = IF e.kind = "CREDIT" THEN @ + e.amount
                                                   ELSE @ - e.amount]
    BY <1>1 DEF Posted
  <2>4. ledger' \subseteq Entries
    BY <1>0, <1>1 DEF Posted
  <2> QED
    BY <1>0, <2>1, <2>2, <2>3, <2>4
<1> QED
  BY <1>0, <1>1, LedgerMoves

LEMMA NextWalletType ==
  ASSUME WalletInv, WalletNext
  PROVE  WalletTypeOK'
  BY TopupsAreTyped, TransfersAreTyped, TxnsAreTyped, OrdersAreTyped, BalancesAreTyped
  DEF WalletTypeOK, TopupRow, TransferRow, TxnRow

LEMMA EntriesStep ==
  ASSUME WalletInv, WalletNext
  PROVE  EntriesAreKnown'
<1>1. ASSUME UNCHANGED ledger PROVE EntriesAreKnown'
  BY <1>1 DEF WalletInv, EntriesAreKnown, IsTopup, IsPurchaseOf, IsRefundOf
<1>2. ASSUME NEW e, Posted(e),
             IsTopup(e) \/ \E o \in WalletOrders : IsPurchaseOf(e, o) \/ IsRefundOf(e, o)
      PROVE EntriesAreKnown'
  <2>1. IsFiniteSet(ledger')
    BY <1>2, FS_AddElement DEF Posted, WalletInv, EntriesAreKnown
  <2> QED
    BY <1>2, <2>1 DEF Posted, WalletInv, EntriesAreKnown, IsTopup, IsPurchaseOf, IsRefundOf
<1> QED
  BY <1>1, <1>2, LedgerMoves DEF TopupPosted, PurchasePosted, RefundPosted, IsTopup

LEMMA RowsStep ==
  ASSUME WalletInv, WalletNext
  PROVE  RowsAreFilled'
<1>1. \A i \in TopupIntents :
        (topup[i].status # "none")' => topup'[i].customer \in Customers /\ topup'[i].amount \in Amounts
  BY TopupMoves
<1>2. ASSUME NEW t \in Transfers, transfer'[t] # NotMade
      PROVE /\ transfer'[t].content \in TopupIntents /\ transfer'[t].amount \in Amounts
            /\ topup'[transfer'[t].content].status # "none"
  <2>1. /\ transfer'[t].content \in TopupIntents /\ transfer'[t].amount \in Amounts
        /\ topup[transfer'[t].content].status # "none"
    BY <1>2, TransferMoves DEF WalletInv, RowsAreFilled
  <2> QED
    BY <2>1, TopupMoves
<1>3. ASSUME NEW p \in WalletTxns, wtxn'[p].at = "presenting"
      PROVE wtxn'[p].customer \in Customers /\ wtxn'[p].amount \in Amounts
  <2>1. CASE wtxn'[p] = wtxn[p]
    BY <1>3, <2>1 DEF WalletInv, RowsAreFilled
  <2>2. ASSUME NEW c \in Customers, NEW a \in Amounts,
               wtxn'[p] = [at |-> "presenting", customer |-> c, amount |-> a,
                           intent |-> NoIntent, transfer |-> NoTransfer]
        PROVE wtxn'[p].customer \in Customers /\ wtxn'[p].amount \in Amounts
    BY <2>2
  <2>3. wtxn'[p] # NoTxn /\ \A t \in Transfers :
          wtxn'[p] # [at |-> "crediting", customer |-> NoCustomer, amount |-> 0,
                      intent |-> transfer[t].content, transfer |-> t]
    BY <1>3 DEF NoTxn
  <2> QED
    BY <2>1, <2>2, <2>3, TxnMoves
<1> QED
  BY <1>1, <1>2, <1>3 DEF RowsAreFilled

LEMMA PaidStep ==
  ASSUME WalletInv, WalletNext
  PROVE  PurchasesArePaid'
<1> SUFFICES ASSUME NEW e \in ledger', NEW o \in WalletOrders, IsPurchaseOf(e, o)
             PROVE  order'[o] # "PENDING_PAYMENT"
  BY DEF PurchasesArePaid, IsPurchaseOf
<1>1. CASE e \in ledger
  BY <1>1, OrderMoves DEF WalletInv, PurchasesArePaid
<1>2. CASE e \notin ledger
  <2>1. Posted(e) /\ \E q \in WalletOrders : PurchasePosted(e, q)
    BY <1>2, LedgerMoves, ZenonT(60) DEF Posted, TopupPosted, RefundPosted, IsRefundOf, IsPurchaseOf, TopupKey,
                             PurchaseKey, RefundKey
  <2> QED
    BY <2>1 DEF PurchasePosted, IsPurchaseOf, PurchaseKey
<1> QED
  BY <1>1, <1>2

\* Nothing a step does takes away what a transaction in progress has locked.
LEMMA LockedRowsStay ==
  ASSUME WalletInv, WalletNext, NEW p \in WalletTxns, wtxn[p].at = "crediting",
         wtxn'[p] = wtxn[p]
  PROVE  /\ topup'[wtxn[p].intent].status = topup[wtxn[p].intent].status
         /\ transfer'[wtxn[p].transfer].recorded # "topup lane"
<1> DEFINE i == wtxn[p].intent
           t == wtxn[p].transfer
           Goal == topup'[i].status = topup[i].status /\ transfer'[t].recorded # "topup lane"
<1> USE DEF WalletInv
<1>0. /\ topup \in [TopupIntents -> TopupRow] /\ transfer \in [Transfers -> TransferRow]
      /\ wtxn \in [WalletTxns -> TxnRow]
  BY DEF WalletTypeOK, TopupRow, TransferRow, TxnRow
<1>1. /\ t \in Transfers /\ i \in TopupIntents /\ transfer[t] # NotMade
      /\ transfer[t].content = i /\ transfer[t].recorded # "topup lane" /\ topup[i].status \in Live
  BY DEF LocksAreHeld, RowsAreFilled, Settles
<1>2. IntentLocked(i) /\ BeingRecorded(t)
  BY DEF IntentLocked, BeingRecorded
<1>3. ASSUME NEW q \in WalletTxns, EvidenceCredit(q) PROVE Goal
  <2>1. wtxn[q].at = "crediting" /\ wtxn'[q] = NoTxn
    BY <1>0, <1>3 DEF EvidenceCredit, End
  <2>2. q # p
    BY <2>1 DEF NoTxn
  <2>3. wtxn[q].intent # i
    BY <2>1, <2>2 DEF LocksAreHeld
  <2>4. wtxn[q].transfer # t
    BY <1>1, <2>1, <2>3 DEF LocksAreHeld
  <2>5. /\ topup' = [topup EXCEPT ![wtxn[q].intent].status = "SUCCEEDED"]
        /\ transfer' = [transfer EXCEPT ![wtxn[q].transfer].recorded = "topup lane"]
    BY <1>3 DEF EvidenceCredit
  <2> HIDE DEF i, t
  <2> QED
    BY <1>0, <1>1, <2>3, <2>4, <2>5
<1> HIDE DEF i, t
<1>4. ASSUME topup'[i] = topup[i], transfer'[t] = transfer[t] PROVE Goal
  BY <1>1, <1>4
<1>5. ASSUME NEW I, i \notin I, topup'[i] = Expire(I)[i], transfer' = transfer PROVE Goal
  BY <1>1, <1>4, <1>5 DEF Expire
<1>6. ASSUME NEW q \in WalletTxns, PresentAgain(q) PROVE Goal
  BY <1>1, <1>2, <1>5, <1>6 DEF PresentAgain
<1>7. ASSUME NEW c \in Customers, CancelTopup(c) PROVE Goal
  BY <1>1, <1>2, <1>5, <1>7 DEF CancelTopup
<1>8. ASSUME NEW q \in WalletTxns, NEW j \in TopupIntents, PresentNew(q, j) PROVE Goal
  <2>1. j # i /\ i \notin LiveOf(wtxn[q].customer) /\ transfer' = transfer
    BY <1>1, <1>2, <1>8 DEF PresentNew, Live
  <2>2. topup'[i] = Expire(LiveOf(wtxn[q].customer))[i]
    BY <1>1, <1>8, <2>1 DEF PresentNew, Expire
  <2> QED
    BY <1>5, <2>1, <2>2
<1>9. ASSUME NEW j \in TopupIntents, Lapse(j) PROVE Goal
  <2>1. topup' = [topup EXCEPT ![j].age = IF @ = "fresh" THEN "lapsed" ELSE "late"]
        /\ transfer' = transfer
    BY <1>9 DEF Lapse
  <2>2. CASE j = i
    <3>1. PICK a : topup'[i] = [topup[i] EXCEPT !.age = a]
      BY <1>0, <1>1, <2>1, <2>2
    <3>2. topup[i] \in TopupRow
      BY <1>0, <1>1
    <3>3. topup'[i].status = topup[i].status
      BY <3>1, <3>2 DEF TopupRow
    <3> QED
      BY <1>1, <2>1, <3>3
  <2>3. CASE j # i
    BY <1>0, <1>1, <1>4, <2>1, <2>3
  <2> QED
    BY <2>2, <2>3
<1>10. ASSUME NEW s \in Transfers, NEW j \in TopupIntents, NEW a \in Amounts, Pay(s, j, a)
       PROVE Goal
  BY <1>0, <1>1, <1>4, <1>10 DEF Pay
<1>11. ASSUME NEW s \in Transfers, EvidenceToReview(s) PROVE Goal
  <2>1. s # t /\ transfer[s].content # i
    BY <1>2, <1>11 DEF EvidenceToReview, NewReport
  <2> QED
    BY <1>0, <1>1, <1>4, <1>11, <2>1 DEF EvidenceToReview
<1>12. ASSUME NEW s \in Transfers, Reconcile(s) PROVE Goal
  <2>1. s # t
    BY <1>2, <1>12 DEF Reconcile, NewReport
  <2> QED
    BY <1>0, <1>1, <1>4, <1>12, <2>1 DEF Reconcile
<1>13. Goal
  BY <1>3, <1>4, <1>6, <1>7, <1>8, <1>9, <1>10, <1>11, <1>12
  DEF WalletNext, PresentLock, EvidenceLock, WalletAbort, Purchase, PaidByBank, RequestRefund,
      Refund
<1> QED
  BY <1>13 DEF i, t

LEMMA LocksStep ==
  ASSUME WalletInv, WalletNext
  PROVE  LocksAreHeld'
<1> USE DEF WalletInv
<1>1. ASSUME NEW p \in WalletTxns, wtxn'[p].at = "crediting"
      PROVE  \/ wtxn'[p] = wtxn[p]
             \/ \E t \in Transfers :
                  /\ EvidenceLock(p, t)
                  /\ wtxn'[p] = [at |-> "crediting", customer |-> NoCustomer, amount |-> 0,
                                 intent |-> transfer[t].content, transfer |-> t]
  <2>1. wtxn'[p] # NoTxn /\ \A c \in Customers, a \in Amounts :
          wtxn'[p] # [at |-> "presenting", customer |-> c, amount |-> a,
                      intent |-> NoIntent, transfer |-> NoTransfer]
    BY <1>1 DEF NoTxn
  <2> QED
    BY <2>1, TxnMoves
<1>2. ASSUME NEW p \in WalletTxns, wtxn'[p].at = "crediting"
      PROVE  /\ wtxn'[p].transfer \in Transfers
             /\ transfer'[wtxn'[p].transfer] # NotMade
             /\ transfer'[wtxn'[p].transfer].content = wtxn'[p].intent
             /\ transfer'[wtxn'[p].transfer].recorded # "topup lane"
             /\ Settles(wtxn[p].transfer)'
  <2>1. CASE wtxn'[p] = wtxn[p]
    <3> DEFINE t == wtxn[p].transfer
               i == wtxn[p].intent
    <3>1. /\ t \in Transfers /\ transfer[t] # NotMade /\ transfer[t].content = i
          /\ transfer[t].recorded # "topup lane" /\ Settles(t)
      BY <1>2, <2>1 DEF LocksAreHeld
    <3>2. i \in TopupIntents /\ topup[i].status # "none"
      BY <3>1 DEF RowsAreFilled
    <3>3. topup'[i].status = topup[i].status /\ transfer'[t].recorded # "topup lane"
      BY <1>2, <2>1, LockedRowsStay
    <3>4. /\ transfer'[t] # NotMade /\ transfer'[t].content = i
          /\ transfer'[t].amount = transfer[t].amount /\ transfer'[t].late = transfer[t].late
      BY <3>1, TransferMoves
    <3>5. topup'[i].amount = topup[i].amount
      BY <3>2, TopupMoves
    <3> QED
      BY <2>1, <3>1, <3>3, <3>4, <3>5 DEF Settles
  <2>2. CASE wtxn'[p] # wtxn[p]
    <3>1. PICK t \in Transfers :
            /\ EvidenceLock(p, t)
            /\ wtxn'[p] = [at |-> "crediting", customer |-> NoCustomer, amount |-> 0,
                           intent |-> transfer[t].content, transfer |-> t]
      BY <1>1, <1>2, <2>2
    <3>2. /\ transfer[t] # NotMade /\ transfer[t].recorded # "topup lane" /\ Settles(t)
          /\ UNCHANGED <<topup, transfer>>
      BY <3>1 DEF EvidenceLock, NewReport
    <3>3. wtxn'[p].transfer = t /\ wtxn'[p].intent = transfer[t].content
      BY <3>1
    <3> QED
      BY <3>2, <3>3 DEF Settles
  <2> QED
    BY <2>1, <2>2
<1>4. ASSUME NEW p \in WalletTxns, NEW t \in Transfers, EvidenceLock(p, t),
             NEW q \in WalletTxns, p # q, wtxn'[q].at = "crediting"
      PROVE  wtxn'[q].intent # transfer[t].content
  <2>1. wtxn'[q] = wtxn[q]
    BY <1>4 DEF EvidenceLock, WalletTypeOK
  <2> QED
    BY <1>4, <2>1 DEF EvidenceLock, IntentLocked
<1>5. ASSUME NEW p \in WalletTxns, wtxn'[p].at = "crediting", wtxn'[p] # wtxn[p],
             NEW q \in WalletTxns, p # q, wtxn'[q].at = "crediting"
      PROVE  wtxn'[q].intent # wtxn'[p].intent
  <2>1. PICK t \in Transfers :
          /\ EvidenceLock(p, t)
          /\ wtxn'[p] = [at |-> "crediting", customer |-> NoCustomer, amount |-> 0,
                         intent |-> transfer[t].content, transfer |-> t]
    BY <1>1, <1>5
  <2>2. wtxn'[p].intent = transfer[t].content
    BY <2>1
  <2> QED
    BY <1>4, <1>5, <2>1, <2>2
<1>6. ASSUME NEW p \in WalletTxns, NEW q \in WalletTxns, wtxn'[p].at = "crediting",
             wtxn'[q].at = "crediting", wtxn'[p].intent = wtxn'[q].intent
      PROVE  p = q
  <2>1. CASE wtxn'[p] = wtxn[p] /\ wtxn'[q] = wtxn[q]
    BY <1>6, <2>1 DEF LocksAreHeld
  <2>2. CASE wtxn'[p] # wtxn[p]
    BY <1>5, <1>6, <2>2
  <2>3. CASE wtxn'[q] # wtxn[q]
    BY <1>5, <1>6, <2>3
  <2> QED
    BY <2>1, <2>2, <2>3
<1> QED
  BY <1>2, <1>6 DEF LocksAreHeld
-----------------------------------------------------------------------------
(* The three laws of the ledger.                                             *)

\* An entry that a step adds, with what its key says of it.
LEMMA NewEntry ==
  ASSUME WalletInv, WalletNext, NEW e \in ledger', e \notin ledger
  PROVE  /\ Posted(e)
         /\ \/ /\ e.key[1] = "topup"
               /\ \E i \in TopupIntents, t \in Transfers :
                    e.key[2] = i /\ e.key[3] = t /\ TopupPosted(e, i, t)
            \/ /\ e.key[1] = "purchase"
               /\ \E o \in WalletOrders : e.key[2] = o /\ PurchasePosted(e, o)
            \/ /\ e.key[1] = "refund"
               /\ \E o \in WalletOrders : e.key[2] = o /\ RefundPosted(e, o)
<1>1. /\ Posted(e)
      /\ \/ \E i \in TopupIntents, t \in Transfers : TopupPosted(e, i, t)
         \/ \E o \in WalletOrders : PurchasePosted(e, o) \/ RefundPosted(e, o)
  <2>1. PICK x : /\ Posted(x)
                 /\ \/ \E i \in TopupIntents, t \in Transfers : TopupPosted(x, i, t)
                    \/ \E o \in WalletOrders : PurchasePosted(x, o) \/ RefundPosted(x, o)
    BY LedgerMoves
  <2>2. x = e
    BY <2>1 DEF Posted
  <2> QED
    BY <2>1, <2>2
<1>2. ASSUME NEW i \in TopupIntents, NEW t \in Transfers, TopupPosted(e, i, t)
      PROVE  e.key[1] = "topup" /\ e.key[2] = i /\ e.key[3] = t
  <2>1. e.key = <<"topup", i, t>>
    BY <1>2 DEF TopupPosted, TopupKey
  <2> QED
    BY <2>1
<1>3. ASSUME NEW o \in WalletOrders, PurchasePosted(e, o)
      PROVE  e.key[1] = "purchase" /\ e.key[2] = o
  BY <1>3 DEF PurchasePosted, IsPurchaseOf, PurchaseKey
<1>4. ASSUME NEW o \in WalletOrders, RefundPosted(e, o)
      PROVE  e.key[1] = "refund" /\ e.key[2] = o
  BY <1>4 DEF RefundPosted, IsRefundOf, RefundKey
<1> QED
  BY <1>1, <1>2, <1>3, <1>4

LEMMA BackedStep ==
  ASSUME WalletInv, WalletNext
  PROVE  TopupCreditsAreBacked'
<1> DEFINE Backed(e) ==
             LET i == e.key[2]
                 t == e.key[3]
             IN /\ transfer[t].content = i
                /\ transfer[t].amount = e.amount
                /\ ~transfer[t].late
                /\ transfer[t].recorded = "topup lane"
                /\ topup[i].status \in {"SUCCEEDED", "NEEDS_REVIEW"}
                /\ topup[i].customer = e.customer
           C == CreditsWith("topup")
<1> USE DEF WalletInv
<1>1. ASSUME NEW e \in ledger, e \in C
      PROVE  \E i \in TopupIntents, t \in Transfers : e.key = TopupKey(i, t)
  BY <1>1 DEF CreditsWith, EntriesAreKnown, IsTopup, IsPurchaseOf, IsRefundOf, PurchaseKey, RefundKey
<1>2. ASSUME NEW e \in ledger, e \in C
      PROVE  /\ transfer'[e.key[3]].content = e.key[2]
             /\ transfer'[e.key[3]].amount = e.amount
             /\ ~transfer'[e.key[3]].late
             /\ transfer'[e.key[3]].recorded = "topup lane"
             /\ topup'[e.key[2]].status \in {"SUCCEEDED", "NEEDS_REVIEW"}
             /\ topup'[e.key[2]].customer = e.customer
  <2>1. PICK i \in TopupIntents, t \in Transfers : e.key = TopupKey(i, t)
    BY <1>1, <1>2
  <2>2. e.key[2] = i /\ e.key[3] = t
    BY <2>1 DEF TopupKey
  <2>3. /\ transfer[t].content = i /\ transfer[t].amount = e.amount /\ ~transfer[t].late
        /\ transfer[t].recorded = "topup lane"
        /\ topup[i].status \in {"SUCCEEDED", "NEEDS_REVIEW"} /\ topup[i].customer = e.customer
    BY <1>2, <2>2 DEF TopupCreditsAreBacked
  <2>4. transfer'[t] = transfer[t]
    BY <2>3, TransferMoves
  <2>5. topup'[i].status \in {"SUCCEEDED", "NEEDS_REVIEW"} /\ topup'[i].customer = e.customer
    BY <2>3, TopupMoves
  <2> QED
    BY <2>2, <2>3, <2>4, <2>5
<1>3. ASSUME NEW e \in ledger', e \notin ledger, e \in C'
      PROVE  /\ transfer'[e.key[3]].content = e.key[2]
             /\ transfer'[e.key[3]].amount = e.amount
             /\ ~transfer'[e.key[3]].late
             /\ transfer'[e.key[3]].recorded = "topup lane"
             /\ topup'[e.key[2]].status \in {"SUCCEEDED", "NEEDS_REVIEW"}
             /\ topup'[e.key[2]].customer = e.customer
             /\ transfer[e.key[3]].recorded # "topup lane"
             /\ topup[e.key[2]].status \in Live
  <2>1. e.key[1] = "topup"
    BY <1>3 DEF CreditsWith
  <2>2. PICK i \in TopupIntents, t \in Transfers :
          e.key[2] = i /\ e.key[3] = t /\ TopupPosted(e, i, t)
    BY <1>3, <2>1, NewEntry
  <2>3. e.key[2] = i /\ e.key[3] = t
    BY <2>2
  <2>4. /\ transfer'[t].content = i /\ transfer'[t].amount = e.amount /\ ~transfer'[t].late
        /\ topup'[i].customer = e.customer
    BY <2>2, TransferMoves, TopupMoves DEF TopupPosted, Live
  <2> QED
    BY <2>2, <2>3, <2>4 DEF TopupPosted
<1>4. ASSUME NEW e \in ledger', e \notin ledger, e \in C', NEW f \in ledger, f \in C
      PROVE  e.key[2] # f.key[2] /\ e.key[3] # f.key[3]
  <2>1. transfer[e.key[3]].recorded # "topup lane" /\ topup[e.key[2]].status \in Live
    BY <1>3, <1>4
  <2>2. /\ transfer[f.key[3]].recorded = "topup lane"
        /\ topup[f.key[2]].status \in {"SUCCEEDED", "NEEDS_REVIEW"}
    BY <1>4 DEF TopupCreditsAreBacked
  <2> QED
    BY <2>1, <2>2 DEF Live
<1>5. \A e, f \in ledger' : e \notin ledger /\ f \notin ledger => e = f
  BY LedgerMoves DEF Posted
<1>6. C' \subseteq ledger' /\ \A e \in ledger : e \in C' => e \in C
  BY DEF CreditsWith
<1>7. ASSUME NEW e \in C', NEW f \in C', e.key[2] = f.key[2] \/ e.key[3] = f.key[3]
      PROVE  e = f
  <2>1. e \in ledger' /\ f \in ledger'
    BY <1>6
  <2>2. CASE e \in ledger /\ f \in ledger
    BY <1>6, <1>7, <2>2 DEF TopupCreditsAreBacked
  <2>3. CASE e \in ledger /\ f \notin ledger
    BY <1>4, <1>6, <1>7, <2>1, <2>3
  <2>4. CASE e \notin ledger /\ f \in ledger
    BY <1>4, <1>6, <1>7, <2>1, <2>4
  <2>5. CASE e \notin ledger /\ f \notin ledger
    BY <1>5, <2>1, <2>5
  <2> QED
    BY <2>2, <2>3, <2>4, <2>5
<1> QED
  BY <1>2, <1>3, <1>6, <1>7 DEF TopupCreditsAreBacked

LEMMA RefundsStep ==
  ASSUME WalletInv, WalletNext
  PROVE  RefundsMirrorPurchases'
<1> USE DEF WalletInv
<1>1. ASSUME NEW o \in WalletOrders
      PROVE  order'[o] = "REFUNDED" <=> KeyUsed(BuyerOf[o], RefundKey(o))'
  <2>1. ASSUME order'[o] = "REFUNDED" PROVE KeyUsed(BuyerOf[o], RefundKey(o))'
    <3>1. CASE order[o] = "REFUNDED"
      <4>1. \E e \in ledger : e.customer = BuyerOf[o] /\ e.key = RefundKey(o)
        BY <3>1 DEF RefundsMirrorPurchases, KeyUsed
      <4>2. ledger \subseteq ledger'
        BY LedgerMoves DEF Posted
      <4> QED
        BY <4>1, <4>2 DEF KeyUsed
    <3>2. CASE order[o] # "REFUNDED"
      <4>1. Refund(o)
        BY <2>1, <3>2, OrderMoves
      <4>2. PICK e : Posted(e) /\ RefundPosted(e, o)
        BY <4>1, RefundPosts
      <4> QED
        BY <4>2 DEF Posted, RefundPosted, IsRefundOf, KeyUsed
    <3> QED
      BY <3>1, <3>2
  <2>2. ASSUME KeyUsed(BuyerOf[o], RefundKey(o))' PROVE order'[o] = "REFUNDED"
    <3>1. PICK e \in ledger' : e.customer = BuyerOf[o] /\ e.key = RefundKey(o)
      BY <2>2 DEF KeyUsed
    <3>2. CASE e \in ledger
      BY <3>1, <3>2, OrderMoves DEF RefundsMirrorPurchases, KeyUsed
    <3>3. CASE e \notin ledger
      <4>0. e.key[1] = "refund"
        BY <3>1 DEF RefundKey
      <4>1. PICK q \in WalletOrders : RefundPosted(e, q)
        BY <3>3, <4>0, NewEntry
      <4> QED
        BY <3>1, <4>1 DEF RefundPosted, IsRefundOf, RefundKey
    <3> QED
      BY <3>2, <3>3
  <2> QED
    BY <2>1, <2>2
<1>2. ASSUME NEW e \in CreditsWith("refund")'
      PROVE  \E f \in ledger' : /\ f.kind = "DEBIT"
                                /\ f.key[1] = "purchase" /\ f.key[2] = e.key[2]
                                /\ f.customer = e.customer
                                /\ f.amount = e.amount
  <2>0. e \in ledger' /\ e.kind = "CREDIT" /\ e.key[1] = "refund" /\ ledger \subseteq ledger'
    BY <1>2, LedgerMoves DEF CreditsWith, Posted
  <2>1. CASE e \in ledger
    <3>1. e \in CreditsWith("refund")
      BY <2>0, <2>1 DEF CreditsWith
    <3> QED
      BY <2>0, <3>1 DEF RefundsMirrorPurchases
  <2>2. CASE e \notin ledger
    <3>1. PICK o \in WalletOrders : RefundPosted(e, o)
      BY <2>0, <2>2, NewEntry
    <3>2. PICK f \in ledger : IsPurchaseOf(f, o) /\ f.amount = e.amount
      BY <3>1 DEF RefundPosted
    <3>3. /\ f.kind = "DEBIT" /\ f.key[1] = "purchase" /\ f.key[2] = o
          /\ f.customer = e.customer /\ e.key[2] = o
      BY <3>1, <3>2 DEF RefundPosted, IsPurchaseOf, IsRefundOf, PurchaseKey, RefundKey
    <3> QED
      BY <2>0, <3>2, <3>3
  <2> QED
    BY <2>1, <2>2
<1>3. ASSUME NEW e \in ledger', e \notin ledger, NEW f \in ledger,
             e.key[1] # "topup", e.key[1] = f.key[1], e.key[2] = f.key[2]
      PROVE  FALSE
  <2>1. Posted(e)
    BY <1>3, NewEntry
  <2>2. CASE \E o \in WalletOrders : PurchasePosted(e, o)
    <3>1. PICK o \in WalletOrders : PurchasePosted(e, o)
      BY <2>2
    <3>2. f.key[1] = "purchase" /\ f.key[2] = o
      BY <1>3, <3>1 DEF PurchasePosted, IsPurchaseOf, PurchaseKey
    <3>3. IsPurchaseOf(f, o)
      BY <3>2 DEF EntriesAreKnown, IsTopup, IsPurchaseOf, IsRefundOf, TopupKey, PurchaseKey, RefundKey
    <3> QED
      BY <3>1, <3>3 DEF PurchasePosted, PurchasesArePaid
  <2>3. CASE \E o \in WalletOrders : RefundPosted(e, o)
    <3>1. PICK o \in WalletOrders : RefundPosted(e, o)
      BY <2>3
    <3>2. f.key[1] = "refund" /\ f.key[2] = o
      BY <1>3, <3>1 DEF RefundPosted, IsRefundOf, RefundKey
    <3>3. IsRefundOf(f, o)
      BY <3>2 DEF EntriesAreKnown, IsTopup, IsPurchaseOf, IsRefundOf, TopupKey, PurchaseKey, RefundKey
    <3> QED
      BY <2>1, <3>1, <3>3 DEF Posted, KeyUsed, RefundPosted, IsRefundOf
  <2> QED
    BY <1>3, <2>2, <2>3, NewEntry
<1>4. \A e, f \in ledger' : e \notin ledger /\ f \notin ledger => e = f
  BY LedgerMoves DEF Posted
<1>5. ASSUME NEW e \in ledger', NEW f \in ledger',
             e.key[1] # "topup", e.key[1] = f.key[1], e.key[2] = f.key[2]
      PROVE  e = f
  <2>1. CASE e \in ledger /\ f \in ledger
    BY <1>5, <2>1 DEF RefundsMirrorPurchases
  <2>2. CASE e \in ledger /\ f \notin ledger
    BY <1>3, <1>5, <2>2
  <2>3. CASE e \notin ledger /\ f \in ledger
    BY <1>3, <1>5, <2>3
  <2>4. CASE e \notin ledger /\ f \notin ledger
    BY <1>4, <2>4
  <2> QED
    BY <2>1, <2>2, <2>3, <2>4
<1> QED
  BY <1>1, <1>2, <1>5 DEF RefundsMirrorPurchases

LEMMA BalanceStep ==
  ASSUME WalletInv, WalletNext
  PROVE  BalanceIsLedger'
<1> USE DEF WalletInv
<1>1. CASE UNCHANGED <<ledger, balance>>
  BY <1>1 DEF BalanceIsLedger, EntriesOf
<1>2. ASSUME NEW e, Posted(e), NEW c \in Customers
      PROVE  balance'[c] = AmountSum(EntriesOf(c, "CREDIT")') - AmountSum(EntriesOf(c, "DEBIT")')
  <2>0. /\ balance \in [Customers -> Nat] /\ ledger \subseteq Entries /\ IsFiniteSet(ledger)
        /\ e \in Entries /\ e.customer \in Customers /\ e.amount \in Nat
        /\ e.kind \in {"CREDIT", "DEBIT"}
    BY <1>2 DEF WalletTypeOK, EntriesAreKnown, Posted, Entries
  <2>1. e \notin ledger
    BY <1>2 DEF Posted, KeyUsed
  <2>2. /\ ledger' = ledger \cup {e}
        /\ balance' = [balance EXCEPT ![e.customer] = IF e.kind = "CREDIT" THEN @ + e.amount
                                                      ELSE @ - e.amount]
    BY <1>2 DEF Posted
  <2>3. ASSUME NEW kind
        PROVE  /\ IsFiniteSet(EntriesOf(c, kind)) /\ e \notin EntriesOf(c, kind)
               /\ \A x \in EntriesOf(c, kind) \cup {e} : x.amount \in Int
    BY <2>0, <2>1, FS_Subset DEF EntriesOf, Entries
  <2>4. ASSUME NEW kind
        PROVE  /\ AmountSum(EntriesOf(c, kind)) \in Int
               /\ AmountSum(EntriesOf(c, kind) \cup {e}) = AmountSum(EntriesOf(c, kind)) + e.amount
    BY <2>3, AmountsOfOneMore
  <2>5. \A kind : EntriesOf(c, kind)' = IF e.customer = c /\ e.kind = kind
                                        THEN EntriesOf(c, kind) \cup {e} ELSE EntriesOf(c, kind)
    BY <2>2 DEF EntriesOf
  <2>6. balance[c] = AmountSum(EntriesOf(c, "CREDIT")) - AmountSum(EntriesOf(c, "DEBIT"))
    BY DEF BalanceIsLedger
  <2> DEFINE cr == AmountSum(EntriesOf(c, "CREDIT"))
             de == AmountSum(EntriesOf(c, "DEBIT"))
             m == e.amount
  <2>7. cr \in Int /\ de \in Int /\ m \in Int /\ balance[c] = cr - de
    <3>1. cr \in Int
      BY <2>4
    <3>2. de \in Int
      BY <2>4
    <3> QED
      BY <2>0, <2>6, <3>1, <3>2
  <2>8. CASE e.customer # c
    <3>1. balance'[c] = balance[c]
      BY <2>0, <2>2, <2>8
    <3>2. EntriesOf(c, "CREDIT")' = EntriesOf(c, "CREDIT")
          /\ EntriesOf(c, "DEBIT")' = EntriesOf(c, "DEBIT")
      BY <2>5, <2>8
    <3> QED
      BY <2>6, <3>1, <3>2
  <2>9. CASE e.customer = c /\ e.kind = "CREDIT"
    <3>1. balance'[c] = balance[c] + m
      BY <2>0, <2>2, <2>9
    <3>2. EntriesOf(c, "CREDIT")' = EntriesOf(c, "CREDIT") \cup {e}
          /\ EntriesOf(c, "DEBIT")' = EntriesOf(c, "DEBIT")
      BY <2>5, <2>9
    <3>3. AmountSum(EntriesOf(c, "CREDIT")') = cr + m /\ AmountSum(EntriesOf(c, "DEBIT")') = de
      BY <2>4, <3>2
    <3> HIDE DEF cr, de, m
    <3> QED
      BY <2>7, <3>1, <3>3
  <2>10. CASE e.customer = c /\ e.kind = "DEBIT"
    <3>1. balance'[c] = balance[c] - m
      BY <2>0, <2>2, <2>10
    <3>2. EntriesOf(c, "CREDIT")' = EntriesOf(c, "CREDIT")
          /\ EntriesOf(c, "DEBIT")' = EntriesOf(c, "DEBIT") \cup {e}
      BY <2>5, <2>10
    <3>3. AmountSum(EntriesOf(c, "CREDIT")') = cr /\ AmountSum(EntriesOf(c, "DEBIT")') = de + m
      BY <2>4, <3>2
    <3> HIDE DEF cr, de, m
    <3> QED
      BY <2>7, <3>1, <3>3
  <2> QED
    BY <2>0, <2>8, <2>9, <2>10
<1> QED
  BY <1>1, <1>2, LedgerMoves DEF BalanceIsLedger

LEMMA NextWallet ==
  ASSUME WalletInv, [WalletNext]_walletVars
  PROVE  WalletInv'
<1>1. CASE WalletNext
  BY <1>1, NextWalletType, EntriesStep, RowsStep, LocksStep, PaidStep, BackedStep, RefundsStep,
     BalanceStep DEF WalletInv
<1>2. CASE UNCHANGED walletVars
  <2> USE <1>2 DEF walletVars, WalletInv
  <2>1. WalletTypeOK'
    BY DEF WalletTypeOK
  <2>2. EntriesAreKnown'
    BY DEF EntriesAreKnown, IsTopup, IsPurchaseOf, IsRefundOf
  <2>3. RowsAreFilled'
    BY DEF RowsAreFilled
  <2>4. LocksAreHeld'
    BY DEF LocksAreHeld, Settles
  <2>5. PurchasesArePaid'
    BY DEF PurchasesArePaid, IsPurchaseOf
  <2>6. TopupCreditsAreBacked' /\ RefundsMirrorPurchases'
    BY ZenonT(60) DEF TopupCreditsAreBacked, RefundsMirrorPurchases, CreditsWith, KeyUsed
  <2>7. BalanceIsLedger'
    BY DEF BalanceIsLedger, EntriesOf
  <2> QED
    BY <2>1, <2>2, <2>3, <2>4, <2>5, <2>6, <2>7
<1> QED
  BY <1>1, <1>2

(* Every state of the wallet is typed, its rows are filled, what was read under an *)
(* intent's lock still holds, and its three laws are kept: the inductive invariant *)
(* of ledger.ts, topup.ts, purchase.ts and refund.ts taken together.               *)
THEOREM WalletInvariant == WalletSpec => []WalletInv
  BY InitWallet, NextWallet, PTL DEF WalletSpec

(* For any customers, transfers, orders and transactions in progress: a top-up credit *)
(* is one transfer's money and a transfer's only credit, a refund returns exactly the  *)
(* purchase it is for, and the cached balance is the sum of the ledger.               *)
THEOREM WalletBacked == WalletSpec => []WalletIsBacked
<1>1. WalletInv => WalletIsBacked
  BY DEF WalletInv, WalletIsBacked
<1> QED
  BY <1>1, WalletInvariant, PTL

-----------------------------------------------------------------------------
(* Orders served by hand.                                                    *)

OrderVersion(status) ==
  CASE status = "none" -> 0
    [] status = "PENDING_PAYMENT" -> 1
    [] status = "PAID" -> 2
    [] status \in {"CANCELLED", "EXPIRED"} -> 2
    [] status = "PROCESSING" -> 3
    [] status = "COMPLETED" -> 4

TaskOf(status) ==
  CASE status = "PROCESSING" -> [status |-> "OPEN", version |-> 1]
    [] status = "COMPLETED" -> [status |-> "COMPLETED", version |-> 2]
    [] OTHER -> [status |-> "none", version |-> 0]

ReserveOf(status) ==
  CASE status = "none" -> "none"
    [] status \in {"PENDING_PAYMENT", "EXPIRED", "PAID", "PROCESSING"} -> "held"
    [] status = "CANCELLED" -> "released"
    [] status = "COMPLETED" -> "delivered"

OrderRow(status) == [status |-> status, version |-> OrderVersion(status)]
ReserveRow(o, status) == IF o \in Counted THEN ReserveOf(status) ELSE "none"

\* An order's rows move together: its status tells every version, the task and the reserve.
RowsAgree ==
  \A o \in ServiceOrders :
    /\ served[o] = OrderRow(served[o].status)
    /\ task[o] = TaskOf(served[o].status)
    /\ reserve[o] = ReserveRow(o, served[o].status)
    /\ served[o].status = "PAID" => o \in paidQueue

\* A run has an order, which was paid when it was loaded, and has its task once made.
RunsAreLoaded ==
  /\ \A r \in TaskRuns :
       /\ taskRun[r].at # "idle" => taskRun[r].of \in ServiceOrders
       /\ taskRun[r].at = "loaded" =>
            served[taskRun[r].of].status \in {"PAID", "PROCESSING", "COMPLETED"}
       /\ taskRun[r].at = "made" => served[taskRun[r].of].status \in {"PROCESSING", "COMPLETED"}
  /\ \A c \in TaskPresses : taskPress[c] # Unpressed => taskPress[c].of \in ServiceOrders

\* A press was made with a key of a version and a delta.
KeysAreAsked ==
  \A a \in StockPresses :
    stockPress[a].at # "idle" => stockPress[a].key \in (1 .. MaxStockVersion) \X Deltas

Out == {o \in Counted : reserve[o] \in {"held", "delivered"}}

\* What is on the shelf or out is what was there at first and what was adjusted.
CountAddsUp ==
  /\ IsFiniteSet(adjusted) /\ IsFiniteSet(Out)
  /\ count.available + Cardinality(Out) = FirstStock + Total(adjusted)

ServiceInv == ServiceTypeOK /\ RowsAgree /\ RunsAreLoaded /\ KeysAreAsked /\ CountAddsUp

LEMMA TotalsAreAdded ==
  ASSUME NEW S, NEW T, IsFiniteSet(T), S \subseteq T
  PROVE  Total(S) = SumOf([k \in T |-> k[2]], S)
<1> DEFINE F == [k \in T |-> k[2]]
           sums(g) == g = [s \in SUBSET S |-> IF s = {} THEN 0 ELSE Picked(s)[2] + g[s \ {Picked(s)}]]
<1>1. \A g : SumsUp(g, F, S) <=> sums(g)
  <2> SUFFICES ASSUME NEW g PROVE SumsUp(g, F, S) <=> sums(g)
    OBVIOUS
  <2>1. \A s \in SUBSET S : (IF s = {} THEN 0 ELSE F[Picked(s)] + g[s \ {Picked(s)}])
                            = (IF s = {} THEN 0 ELSE Picked(s)[2] + g[s \ {Picked(s)}])
    BY PickedIsIn
  <2> HIDE DEF F
  <2> QED
    BY <2>1 DEF SumsUp
<1>2. Total(S) = (CHOOSE g : sums(g))[S]
  BY DEF Total, MapThenSumSet, MapThenFoldSet, Picked
<1>3. SumOf(F, S) = (CHOOSE g : SumsUp(g, F, S))[S]
  <2> HIDE DEF F
  <2> QED
    BY DEF SumOf, MapThenSumSet, MapThenFoldSet, SumsUp, Picked
<1>4. (CHOOSE g : sums(g)) = (CHOOSE g : SumsUp(g, F, S))
  <2> HIDE DEF F, sums
  <2> QED
    BY <1>1, Zenon
<1> QED
  BY <1>2, <1>3, <1>4

LEMMA TotalOfNothing == Total({}) = 0
  BY TotalsAreAdded, SumOfNothing, FS_EmptySet

LEMMA TotalOfOneMore ==
  ASSUME NEW S, IsFiniteSet(S), NEW e, e \notin S, \A k \in S \cup {e} : k[2] \in Int
  PROVE  /\ Total(S) \in Int
         /\ Total(S \cup {e}) = Total(S) + e[2]
<1> DEFINE T == S \cup {e}
           F == [k \in T |-> k[2]]
<1>1. IsFiniteSet(T)
  BY FS_AddElement
<1>2. (\A k \in T : F[k] \in Int) /\ F[e] = e[2]
  OBVIOUS
<1>3. Total(S) = SumOf(F, S) /\ Total(T) = SumOf(F, T)
  BY <1>1, TotalsAreAdded
<1> HIDE DEF F
<1> QED
  BY <1>2, <1>3, SumOfOneMore

\* The sum of a set of keys is a number, also when nothing was adjusted.
LEMMA TotalIsInt ==
  ASSUME NEW S, IsFiniteSet(S), \A k \in S : k[2] \in Int
  PROVE  Total(S) \in Int
<1>1. CASE S = {}
  BY <1>1, TotalOfNothing
<1>2. CASE S # {}
  <2>1. PICK e : e \in S
    BY <1>2
  <2> DEFINE rest == S \ {e}
  <2>2. IsFiniteSet(rest) /\ e \notin rest /\ \A k \in rest \cup {e} : k[2] \in Int
    BY <2>1, FS_Subset
  <2>3. S = rest \cup {e} /\ e[2] \in Int
    BY <2>1
  <2> HIDE DEF rest
  <2>4. Total(rest) \in Int /\ Total(rest \cup {e}) = Total(rest) + e[2]
    BY <2>2, TotalOfOneMore
  <2> QED
    BY <2>3, <2>4
<1> QED
  BY <1>1, <1>2

-----------------------------------------------------------------------------
ServedRow == [status : {"none", "PENDING_PAYMENT", "PAID", "PROCESSING", "COMPLETED", "CANCELLED",
                         "EXPIRED"},
              version : 0 .. 4]
TaskRow == [status : {"none", "OPEN", "COMPLETED"}, version : 0 .. 2]
RunRow == [of : ServiceOrders \cup {NoService}, at : {"idle", "loaded", "made"}]
PressRow == [of : ServiceOrders \cup {NoService}, order : 0 .. 4, task : 0 .. 2]
StockRow == [at : {"idle", "asked", "looked"},
             key : {<<0, 0>>} \cup ((1 .. MaxStockVersion) \X Deltas)]

LEMMA InitService == ServiceInit => ServiceInv
<1> SUFFICES ASSUME ServiceInit PROVE ServiceInv
  OBVIOUS
<1> USE DEF ServiceInit
<1>1. ServiceTypeOK
  BY ServiceAssumption DEF ServiceTypeOK, Asleep, Unpressed, Untouched
<1>2. RowsAgree
  BY DEF RowsAgree, OrderRow, OrderVersion, TaskOf, ReserveRow, ReserveOf
<1>3. RunsAreLoaded
  BY DEF RunsAreLoaded, Asleep
<1>4. KeysAreAsked
  BY DEF KeysAreAsked, Untouched
<1>5. CountAddsUp
  <2>1. Out = {}
    BY ServiceAssumption DEF Out
  <2>2. IsFiniteSet({}) /\ Cardinality({}) = 0
    BY FS_EmptySet
  <2>3. FirstStock \in Nat /\ count.available = FirstStock /\ adjusted = {}
    BY ServiceAssumption
  <2> QED
    BY <2>1, <2>2, <2>3, TotalOfNothing DEF CountAddsUp
<1> QED
  BY <1>1, <1>2, <1>3, <1>4, <1>5 DEF ServiceInv

-----------------------------------------------------------------------------
(* What a step can do to an order.                                           *)

Statuses == {"none", "PENDING_PAYMENT", "PAID", "PROCESSING", "COMPLETED", "CANCELLED",
                         "EXPIRED"}

Transitions == {<<"none", "PENDING_PAYMENT">>, <<"PENDING_PAYMENT", "CANCELLED">>,
                <<"PENDING_PAYMENT", "EXPIRED">>,
                <<"PENDING_PAYMENT", "PAID">>, <<"PAID", "PROCESSING">>,
                <<"PROCESSING", "COMPLETED">>}

\* The order's status, its task and its reserve change together.
MovesTo(o, from, to) ==
  /\ served[o].status = from /\ <<from, to>> \in Transitions
  /\ served' = [served EXCEPT ![o] = OrderRow(to)]
  /\ task' = [task EXCEPT ![o] = TaskOf(to)]
  /\ reserve' = [reserve EXCEPT ![o] = ReserveRow(o, to)]
  /\ UNCHANGED adjusted

\* A counted unit leaves the shelf with the order and comes back when it is cancelled.
Recounts(o, from, to) ==
  IF o \notin Counted THEN UNCHANGED count
  ELSE /\ from = "none" => Recount(-1) /\ count.available >= 1
       /\ to = "CANCELLED" => Recount(1)
       /\ from # "none" /\ to # "CANCELLED" => UNCHANGED count

LEMMA RowsMove ==
  ASSUME ServiceInv, NEW o \in ServiceOrders, NEW from, NEW to, <<from, to>> \in Transitions,
         served[o].status = from
  PROVE  /\ Moved(o, to) = [served EXCEPT ![o] = OrderRow(to)]
         /\ TaskOf(from) = TaskOf(to) => task = [task EXCEPT ![o] = TaskOf(to)]
         /\ ReserveOf(from) = ReserveOf(to) => reserve = [reserve EXCEPT ![o] = ReserveRow(o, to)]
         /\ o \notin Counted => reserve = [reserve EXCEPT ![o] = ReserveRow(o, to)]
<1>0. served \in [ServiceOrders -> ServedRow] /\ task \in [ServiceOrders -> TaskRow]
      /\ reserve \in [ServiceOrders -> {"none", "held", "released", "delivered"}]
  BY DEF ServiceInv, ServiceTypeOK, ServedRow, TaskRow
<1>1. served[o] = OrderRow(from) /\ task[o] = TaskOf(from) /\ reserve[o] = ReserveRow(o, from)
  BY DEF ServiceInv, RowsAgree
<1>2. served[o].version + 1 = OrderVersion(to)
  BY <1>1 DEF OrderRow, OrderVersion, Transitions
<1>3. Moved(o, to) = [served EXCEPT ![o] = [status |-> to, version |-> served[o].version + 1]]
  BY <1>0 DEF Moved
<1>4. ReserveOf(from) = ReserveOf(to) \/ o \notin Counted => reserve[o] = ReserveRow(o, to)
  BY <1>1 DEF ReserveRow
<1> QED
  BY <1>0, <1>1, <1>2, <1>3, <1>4 DEF OrderRow

LEMMA PlaceMoves ==
  ASSUME ServiceInv, NEW o \in ServiceOrders, PlaceServiceOrder(o)
  PROVE  MovesTo(o, "none", "PENDING_PAYMENT") /\ Recounts(o, "none", "PENDING_PAYMENT")
<1>1. served[o].status = "none" /\ served' = Moved(o, "PENDING_PAYMENT")
      /\ UNCHANGED <<task, adjusted>>
  BY DEF PlaceServiceOrder
<1>2. <<"none", "PENDING_PAYMENT">> \in Transitions
  BY DEF Transitions
<1>3. TaskOf("none") = TaskOf("PENDING_PAYMENT")
  BY DEF TaskOf
<1>4. reserve' = [reserve EXCEPT ![o] = ReserveRow(o, "PENDING_PAYMENT")]
  <2>1. CASE o \in Counted
    BY <2>1 DEF PlaceServiceOrder, ReserveRow, ReserveOf
  <2>2. CASE o \notin Counted
    BY <1>1, <1>2, <2>2, RowsMove DEF PlaceServiceOrder
  <2> QED
    BY <2>1, <2>2
<1>5. Recounts(o, "none", "PENDING_PAYMENT")
  BY DEF Recounts, PlaceServiceOrder
<1> QED
  BY <1>1, <1>2, <1>3, <1>4, <1>5, RowsMove DEF MovesTo

LEMMA CancelMoves ==
  ASSUME ServiceInv, NEW o \in ServiceOrders, CancelServiceOrder(o)
  PROVE  MovesTo(o, "PENDING_PAYMENT", "CANCELLED") /\ Recounts(o, "PENDING_PAYMENT", "CANCELLED")
<1>1. served[o].status = "PENDING_PAYMENT" /\ served' = Moved(o, "CANCELLED")
      /\ UNCHANGED <<task, adjusted>>
  BY DEF CancelServiceOrder
<1>2. <<"PENDING_PAYMENT", "CANCELLED">> \in Transitions
  BY DEF Transitions
<1>3. TaskOf("PENDING_PAYMENT") = TaskOf("CANCELLED")
  BY DEF TaskOf
<1>4. reserve[o] = IF o \in Counted THEN "held" ELSE "none"
  BY <1>1 DEF ServiceInv, RowsAgree, ReserveRow, ReserveOf
<1>5. reserve' = [reserve EXCEPT ![o] = ReserveRow(o, "CANCELLED")]
  <2>1. CASE o \in Counted
    BY <1>4, <2>1 DEF CancelServiceOrder, ReserveRow, ReserveOf
  <2>2. CASE o \notin Counted
    BY <1>1, <1>2, <1>4, <2>2, RowsMove DEF CancelServiceOrder
  <2> QED
    BY <2>1, <2>2
<1>6. Recounts(o, "PENDING_PAYMENT", "CANCELLED")
  BY <1>4 DEF Recounts, CancelServiceOrder
<1> QED
  BY <1>1, <1>2, <1>3, <1>5, <1>6, RowsMove DEF MovesTo

LEMMA ExpireMoves ==
  ASSUME ServiceInv, NEW o \in ServiceOrders, ExpireServiceOrder(o)
  PROVE  MovesTo(o, "PENDING_PAYMENT", "EXPIRED") /\ Recounts(o, "PENDING_PAYMENT", "EXPIRED")
<1>1. served[o].status = "PENDING_PAYMENT" /\ served' = Moved(o, "EXPIRED")
      /\ UNCHANGED <<task, reserve, adjusted, count>>
  BY DEF ExpireServiceOrder, countVars
<1>2. <<"PENDING_PAYMENT", "EXPIRED">> \in Transitions
  BY DEF Transitions
<1>3. /\ TaskOf("PENDING_PAYMENT") = TaskOf("EXPIRED")
      /\ ReserveOf("PENDING_PAYMENT") = ReserveOf("EXPIRED")
  BY DEF TaskOf, ReserveOf
<1>4. Recounts(o, "PENDING_PAYMENT", "EXPIRED")
  BY <1>1 DEF Recounts
<1> QED
  BY <1>1, <1>2, <1>3, <1>4, RowsMove DEF MovesTo

LEMMA PayMoves ==
  ASSUME ServiceInv, NEW o \in ServiceOrders, PayServiceOrder(o)
  PROVE  MovesTo(o, "PENDING_PAYMENT", "PAID") /\ Recounts(o, "PENDING_PAYMENT", "PAID")
<1>1. served[o].status = "PENDING_PAYMENT" /\ served' = Moved(o, "PAID")
      /\ UNCHANGED <<task, reserve, adjusted, count>>
  BY DEF PayServiceOrder, countVars
<1>2. <<"PENDING_PAYMENT", "PAID">> \in Transitions
  BY DEF Transitions
<1>3. TaskOf("PENDING_PAYMENT") = TaskOf("PAID") /\ ReserveOf("PENDING_PAYMENT") = ReserveOf("PAID")
  BY DEF TaskOf, ReserveOf
<1>4. Recounts(o, "PENDING_PAYMENT", "PAID")
  BY <1>1 DEF Recounts
<1> QED
  BY <1>1, <1>2, <1>3, <1>4, RowsMove DEF MovesTo

LEMMA MakeMoves ==
  ASSUME ServiceInv, NEW r \in TaskRuns, MakeTask(r)
  PROVE  LET o == taskRun[r].of IN
         /\ o \in ServiceOrders /\ UNCHANGED count
         /\ \/ UNCHANGED <<served, task, reserve, adjusted>>
               /\ served[o].status \in {"PROCESSING", "COMPLETED"}
            \/ MovesTo(o, "PAID", "PROCESSING")
<1> DEFINE o == taskRun[r].of
<1>0. o \in ServiceOrders
  BY DEF ServiceInv, RunsAreLoaded, MakeTask
<1>1. UNCHANGED <<count, adjusted, reserve>>
  BY DEF MakeTask, countVars
<1>2. task[o] = TaskOf(served[o].status) /\ task \in [ServiceOrders -> TaskRow]
  BY <1>0 DEF ServiceInv, RowsAgree, ServiceTypeOK, TaskRow
<1> HIDE DEF o
<1>3. CASE served[o].status = "COMPLETED"
  BY <1>0, <1>1, <1>3 DEF MakeTask, o
<1>4. CASE served[o].status = "PROCESSING"
  <2>1. task[o].status = "OPEN"
    BY <1>2, <1>4 DEF TaskOf
  <2> QED
    BY <1>0, <1>1, <1>4, <2>1 DEF MakeTask, o
<1>5. CASE served[o].status = "PAID"
  <2>1. task[o].status = "none"
    BY <1>2, <1>5 DEF TaskOf
  <2>2. /\ task' = [task EXCEPT ![o] = TaskOf("PROCESSING")]
        /\ served' = Moved(o, "PROCESSING")
    BY <1>5, <2>1 DEF MakeTask, o, TaskOf
  <2>3. <<"PAID", "PROCESSING">> \in Transitions /\ ReserveOf("PAID") = ReserveOf("PROCESSING")
    BY DEF Transitions, ReserveOf
  <2>4. MovesTo(o, "PAID", "PROCESSING")
    BY <1>0, <1>1, <1>5, <2>2, <2>3, RowsMove DEF MovesTo
  <2> QED
    BY <1>0, <1>1, <2>4 DEF o
<1> QED
  BY <1>3, <1>4, <1>5 DEF MakeTask, o

LEMMA CompleteMoves ==
  ASSUME ServiceInv, NEW c \in TaskPresses, CompleteTask(c)
  PROVE  LET o == taskPress[c].of IN
         /\ o \in ServiceOrders /\ UNCHANGED count
         /\ UNCHANGED <<served, task, reserve, adjusted>> \/ MovesTo(o, "PROCESSING", "COMPLETED")
<1> DEFINE o == taskPress[c].of
<1>0. o \in ServiceOrders
  BY DEF ServiceInv, RunsAreLoaded, CompleteTask
<1>1. UNCHANGED <<count, adjusted>>
  BY DEF CompleteTask, countVars
<1>2. /\ task[o] = TaskOf(served[o].status) /\ task \in [ServiceOrders -> TaskRow]
      /\ reserve \in [ServiceOrders -> {"none", "held", "released", "delivered"}]
  BY <1>0 DEF ServiceInv, RowsAgree, ServiceTypeOK, TaskRow
<1>3. CASE ~IsCompletable(taskPress[c])
  BY <1>0, <1>1, <1>3 DEF CompleteTask
<1>4. CASE IsCompletable(taskPress[c])
  <2>1. /\ served[o].status = "PROCESSING"
        /\ served' = Moved(o, "COMPLETED")
        /\ task' = [task EXCEPT ![o] = [status |-> "COMPLETED", version |-> @.version + 1]]
        /\ reserve' = IF o \in Counted THEN [reserve EXCEPT ![o] = "delivered"] ELSE reserve
    BY <1>4 DEF CompleteTask, IsCompletable
  <2> HIDE DEF o
  <2>2. task[o].version = 1
    BY <1>2, <2>1 DEF TaskOf
  <2>3. task' = [task EXCEPT ![o] = TaskOf("COMPLETED")]
    <3>1. task' = [task EXCEPT ![o] = [status |-> "COMPLETED", version |-> task[o].version + 1]]
      BY <1>0, <1>2, <2>1
    <3>2. [status |-> "COMPLETED", version |-> task[o].version + 1] = TaskOf("COMPLETED")
      BY <2>2 DEF TaskOf
    <3> QED
      BY <3>1, <3>2
  <2>4. <<"PROCESSING", "COMPLETED">> \in Transitions
    BY DEF Transitions
  <2>5. reserve' = [reserve EXCEPT ![o] = ReserveRow(o, "COMPLETED")]
    <3>1. CASE o \in Counted
      BY <2>1, <3>1 DEF ReserveRow, ReserveOf
    <3>2. CASE o \notin Counted
      BY <1>0, <2>1, <2>4, <3>2, RowsMove
    <3> QED
      BY <3>1, <3>2
  <2>6. MovesTo(o, "PROCESSING", "COMPLETED")
    <3>1. served' = [served EXCEPT ![o] = OrderRow("COMPLETED")]
      BY <1>0, <2>1, <2>4, RowsMove
    <3> QED
      BY <1>1, <2>1, <2>3, <2>4, <2>5, <3>1 DEF MovesTo
  <2> QED
    BY <1>0, <1>1, <2>6 DEF o
<1> QED
  BY <1>3, <1>4

\* Every step leaves the orders alone, or takes one of them along its life.
LEMMA OrdersMove ==
  ASSUME ServiceInv, ServiceNext
  PROVE  \/ UNCHANGED <<served, task, reserve>>
         \/ /\ UNCHANGED adjusted
            /\ \E o \in ServiceOrders, from, to \in Statuses :
                 MovesTo(o, from, to) /\ Recounts(o, from, to)
<1> DEFINE Goal == \/ UNCHANGED <<served, task, reserve>>
                   \/ /\ UNCHANGED adjusted
                      /\ \E o \in ServiceOrders, from, to \in Statuses :
                           MovesTo(o, from, to) /\ Recounts(o, from, to)
<1>1. ASSUME NEW o \in ServiceOrders, NEW from \in Statuses, NEW to \in Statuses,
             MovesTo(o, from, to), Recounts(o, from, to)
      PROVE Goal
  BY <1>1 DEF MovesTo
<1>2. ASSUME NEW o \in ServiceOrders,
             PlaceServiceOrder(o) \/ CancelServiceOrder(o) \/ ExpireServiceOrder(o)
             \/ PayServiceOrder(o)
      PROVE Goal
  BY <1>1, <1>2, PlaceMoves, CancelMoves, ExpireMoves, PayMoves DEF Statuses
<1>3. ASSUME NEW o \in ServiceOrders, UNCHANGED count, MovesTo(o, "PAID", "PROCESSING") PROVE Goal
  BY <1>1, <1>3 DEF Statuses, Recounts
<1>4. ASSUME NEW o \in ServiceOrders, UNCHANGED count, MovesTo(o, "PROCESSING", "COMPLETED")
      PROVE Goal
  BY <1>1, <1>4 DEF Statuses, Recounts
<1>5. ASSUME NEW r \in TaskRuns, MakeTask(r) PROVE Goal
  BY <1>3, <1>5, MakeMoves
<1>6. ASSUME NEW c \in TaskPresses, CompleteTask(c) PROVE Goal
  BY <1>4, <1>6, CompleteMoves
<1>7. CASE UNCHANGED <<served, task, reserve>>
  BY <1>7
<1> QED
  BY <1>2, <1>5, <1>6, <1>7
  DEF ServiceNext, LoadServiceOrder, OpenTask, PublishPaid, TaskRunDies, LookForKey, AdjustCount,
      AskAdjust, PressAgain, taskVars

-----------------------------------------------------------------------------
(* The invariant is kept.                                                    *)

ReserveStates == {"none", "held", "released", "delivered"}

LEMMA OrdersServedAreTyped ==
  ASSUME ServiceInv, ServiceNext
  PROVE  /\ served' \in [ServiceOrders -> ServedRow]
         /\ task' \in [ServiceOrders -> TaskRow]
         /\ reserve' \in [ServiceOrders -> ReserveStates]
<1>0. /\ served \in [ServiceOrders -> ServedRow] /\ task \in [ServiceOrders -> TaskRow]
      /\ reserve \in [ServiceOrders -> ReserveStates]
  BY DEF ServiceInv, ServiceTypeOK, ServedRow, TaskRow, ReserveStates
<1>1. ASSUME NEW to \in Statuses, NEW o
      PROVE OrderRow(to) \in ServedRow /\ TaskOf(to) \in TaskRow /\ ReserveRow(o, to) \in ReserveStates
  BY <1>1 DEF OrderRow, OrderVersion, ServedRow, TaskOf, TaskRow, ReserveRow, ReserveOf,
              ReserveStates, Statuses
<1>2. CASE UNCHANGED <<served, task, reserve>>
  BY <1>0, <1>2
<1>3. ASSUME NEW o \in ServiceOrders, NEW from, NEW to \in Statuses, MovesTo(o, from, to)
      PROVE  /\ served' \in [ServiceOrders -> ServedRow]
             /\ task' \in [ServiceOrders -> TaskRow]
             /\ reserve' \in [ServiceOrders -> ReserveStates]
  BY <1>0, <1>1, <1>3 DEF MovesTo
<1> QED
  BY <1>2, <1>3, OrdersMove

LEMMA RecountIsTyped ==
  ASSUME ServiceInv, NEW delta \in Int, Recount(delta), count.available + delta >= 0
  PROVE  /\ count' \in [available : Nat, version : 1 .. MaxStockVersion]
         /\ count'.available = count.available + delta
<1>1. count \in [available : Nat, version : 1 .. MaxStockVersion]
  BY DEF ServiceInv, ServiceTypeOK
<1>2. count.version + 1 \in 1 .. MaxStockVersion
  BY <1>1, ServiceAssumption DEF Recount
<1> QED
  BY <1>1, <1>2 DEF Recount

\* What an adjustment does: nothing, or the delta of a key that is new.
LEMMA AdjustMoves ==
  ASSUME ServiceInv, NEW a \in StockPresses, AdjustCount(a)
  PROVE  \/ UNCHANGED <<count, adjusted>>
         \/ \E key \in (1 .. MaxStockVersion) \X Deltas :
              /\ key \notin adjusted /\ adjusted' = adjusted \cup {key}
              /\ count.available + key[2] >= 0 /\ Recount(key[2])
<1>1. stockPress[a].key \in (1 .. MaxStockVersion) \X Deltas
  BY DEF AdjustCount, ServiceInv, KeysAreAsked
<1> QED
  BY <1>1 DEF AdjustCount

LEMMA CountsAreTyped ==
  ASSUME ServiceInv, ServiceNext
  PROVE  /\ count' \in [available : Nat, version : 1 .. MaxStockVersion]
         /\ adjusted' \subseteq (1 .. MaxStockVersion) \X Deltas
<1> DEFINE Goal == /\ count' \in [available : Nat, version : 1 .. MaxStockVersion]
                   /\ adjusted' \subseteq (1 .. MaxStockVersion) \X Deltas
<1>0. /\ count \in [available : Nat, version : 1 .. MaxStockVersion]
      /\ adjusted \subseteq (1 .. MaxStockVersion) \X Deltas
      /\ Deltas \subseteq Int
  BY ServiceAssumption DEF ServiceInv, ServiceTypeOK
<1>1. CASE UNCHANGED <<count, adjusted>>
  BY <1>0, <1>1
<1>2. ASSUME NEW o \in ServiceOrders, NEW from, NEW to, UNCHANGED adjusted, Recounts(o, from, to)
      PROVE Goal
  <2>1. CASE UNCHANGED count
    BY <1>0, <1>2, <2>1
  <2>2. CASE Recount(-1) /\ count.available >= 1
    <3>1. count.available + (-1) >= 0
      BY <1>0, <2>2
    <3> QED
      BY <1>0, <1>2, <2>2, <3>1, RecountIsTyped
  <2>3. CASE Recount(1)
    <3>1. count.available + 1 >= 0
      BY <1>0
    <3> QED
      BY <1>0, <1>2, <2>3, <3>1, RecountIsTyped
  <2> QED
    BY <1>2, <2>1, <2>2, <2>3 DEF Recounts
<1>3. ASSUME NEW a \in StockPresses, AdjustCount(a) PROVE Goal
  <2>1. ASSUME NEW key \in (1 .. MaxStockVersion) \X Deltas,
               adjusted' = adjusted \cup {key},
               count.available + key[2] >= 0, Recount(key[2])
        PROVE Goal
    BY <1>0, <2>1, RecountIsTyped
  <2> QED
    BY <1>1, <1>3, <2>1, AdjustMoves
<1>4. ASSUME NEW o \in ServiceOrders,
             PlaceServiceOrder(o) \/ CancelServiceOrder(o) \/ ExpireServiceOrder(o)
             \/ PayServiceOrder(o)
      PROVE Goal
  <2>1. UNCHANGED adjusted
    BY <1>4 DEF PlaceServiceOrder, CancelServiceOrder, ExpireServiceOrder, PayServiceOrder, countVars
  <2>2. \E from, to \in Statuses : Recounts(o, from, to)
    BY <1>4, PlaceMoves, CancelMoves, ExpireMoves, PayMoves DEF Statuses
  <2> QED
    BY <1>2, <2>1, <2>2
<1> QED
  BY <1>1, <1>3, <1>4
  DEF ServiceNext, LoadServiceOrder, OpenTask, MakeTask, PublishPaid, TaskRunDies, CompleteTask,
      LookForKey, AskAdjust, PressAgain, countVars

LEMMA TaskRunsAreTyped ==
  ASSUME ServiceInv, ServiceNext
  PROVE  /\ paidQueue' \subseteq ServiceOrders
         /\ taskRun' \in [TaskRuns -> RunRow]
<1> DEFINE Goal == paidQueue' \subseteq ServiceOrders /\ taskRun' \in [TaskRuns -> RunRow]
<1>0. paidQueue \subseteq ServiceOrders /\ taskRun \in [TaskRuns -> RunRow]
  BY DEF ServiceInv, ServiceTypeOK, RunRow
<1>1. CASE UNCHANGED <<paidQueue, taskRun>>
  BY <1>0, <1>1
<1>2. ASSUME NEW o \in ServiceOrders, PayServiceOrder(o) PROVE Goal
  BY <1>0, <1>2 DEF PayServiceOrder
<1>3. ASSUME NEW o \in ServiceOrders, NEW r \in TaskRuns, LoadServiceOrder(r, o) PROVE Goal
  BY <1>0, <1>3 DEF LoadServiceOrder, RunRow
<1>4. ASSUME NEW r \in TaskRuns, MakeTask(r) PROVE Goal
  BY <1>0, <1>4 DEF MakeTask, RunRow
<1>5. ASSUME NEW r \in TaskRuns, PublishPaid(r) \/ TaskRunDies(r) PROVE Goal
  BY <1>0, <1>5 DEF PublishPaid, TaskRunDies, Asleep, RunRow
<1> QED
  BY <1>1, <1>2, <1>3, <1>4, <1>5
  DEF ServiceNext, PlaceServiceOrder, CancelServiceOrder, ExpireServiceOrder, OpenTask, CompleteTask, LookForKey,
      AskAdjust, AdjustCount, PressAgain, taskVars

LEMMA PressesAreTyped ==
  ASSUME ServiceInv, ServiceNext
  PROVE  taskPress' \in [TaskPresses -> PressRow]
<1>0. /\ taskPress \in [TaskPresses -> PressRow] /\ served \in [ServiceOrders -> ServedRow]
      /\ task \in [ServiceOrders -> TaskRow]
  BY DEF ServiceInv, ServiceTypeOK, ServedRow, TaskRow, PressRow
<1>1. CASE UNCHANGED taskPress
  BY <1>0, <1>1
<1>2. ASSUME NEW o \in ServiceOrders, NEW c \in TaskPresses, OpenTask(c, o)
      PROVE taskPress' \in [TaskPresses -> PressRow]
  <2>1. [of |-> o, order |-> served[o].version, task |-> task[o].version] \in PressRow
    BY <1>0 DEF ServedRow, TaskRow, PressRow
  <2> QED
    BY <1>0, <1>2, <2>1 DEF OpenTask
<1>3. ASSUME NEW c \in TaskPresses, CompleteTask(c) PROVE taskPress' \in [TaskPresses -> PressRow]
  <2>1. Unpressed \in PressRow
    BY DEF Unpressed, PressRow
  <2> QED
    BY <1>0, <1>3, <2>1 DEF CompleteTask
<1> QED
  BY <1>1, <1>2, <1>3
  DEF ServiceNext, PlaceServiceOrder, CancelServiceOrder, ExpireServiceOrder, PayServiceOrder, LoadServiceOrder, MakeTask,
      PublishPaid, TaskRunDies, LookForKey, AskAdjust, AdjustCount, PressAgain, taskVars

LEMMA StockPressesAreTyped ==
  ASSUME ServiceInv, ServiceNext
  PROVE  stockPress' \in [StockPresses -> StockRow] /\ KeysAreAsked'
<1> DEFINE Goal == stockPress' \in [StockPresses -> StockRow] /\ KeysAreAsked'
           Asked == (1 .. MaxStockVersion) \X Deltas
<1>0. /\ stockPress \in [StockPresses -> StockRow]
      /\ \A a \in StockPresses : stockPress[a].at # "idle" => stockPress[a].key \in Asked
      /\ count.version \in 1 .. MaxStockVersion
  BY DEF ServiceInv, ServiceTypeOK, StockRow, KeysAreAsked
<1>1. CASE UNCHANGED stockPress
  BY <1>0, <1>1 DEF KeysAreAsked
<1>2. ASSUME NEW a \in StockPresses, NEW row \in StockRow, row.at # "idle" => row.key \in Asked,
             stockPress' = [stockPress EXCEPT ![a] = row]
      PROVE Goal
  <2> HIDE DEF Asked
  <2>1. stockPress' \in [StockPresses -> StockRow]
    BY <1>0, <1>2
  <2>2. \A b \in StockPresses : stockPress'[b].at # "idle" => stockPress'[b].key \in Asked
    BY <1>0, <1>2
  <2> QED
    BY <2>1, <2>2 DEF KeysAreAsked, Asked
<1>3. ASSUME NEW a \in StockPresses, stockPress' = [stockPress EXCEPT ![a] = Untouched] PROVE Goal
  <2>1. Untouched \in StockRow /\ Untouched.at = "idle"
    BY DEF Untouched, StockRow
  <2> QED
    BY <1>2, <1>3, <2>1
<1>4. ASSUME NEW a \in StockPresses, NEW at \in {"asked", "looked"}, NEW key \in Asked,
             stockPress' = [stockPress EXCEPT ![a] = [at |-> at, key |-> key]]
      PROVE Goal
  <2>1. [at |-> at, key |-> key] \in StockRow
    BY <1>4 DEF StockRow
  <2> QED
    BY <1>2, <1>4, <2>1
<1>5. ASSUME NEW a \in StockPresses, NEW delta \in Deltas, AskAdjust(a, delta) PROVE Goal
  <2>1. <<count.version, delta>> \in Asked
    BY <1>0
  <2>2. stockPress' = [stockPress EXCEPT ![a] = [at |-> "asked", key |-> <<count.version, delta>>]]
    BY <1>5 DEF AskAdjust
  <2> HIDE DEF Asked
  <2> QED
    BY <1>4, <2>1, <2>2
<1>6. ASSUME NEW a \in StockPresses, NEW b \in StockPresses, PressAgain(a, b) PROVE Goal
  <2>1. /\ stockPress[b].key \in Asked
        /\ stockPress' = [stockPress EXCEPT ![a] = [at |-> "asked", key |-> stockPress[b].key]]
    BY <1>0, <1>6 DEF PressAgain
  <2> HIDE DEF Asked
  <2> QED
    BY <1>4, <2>1
<1>7. ASSUME NEW a \in StockPresses, LookForKey(a) PROVE Goal
  <2>1. stockPress[a].at = "asked" /\ stockPress[a].key \in Asked
    BY <1>0, <1>7 DEF LookForKey
  <2>2. stockPress' = [stockPress EXCEPT ![a] =
                         IF stockPress[a].key \in adjusted THEN Untouched
                         ELSE [stockPress[a] EXCEPT !.at = "looked"]]
    BY <1>0, <1>7 DEF LookForKey
  <2>3. [stockPress[a] EXCEPT !.at = "looked"] = [at |-> "looked", key |-> stockPress[a].key]
    <3>1. stockPress[a] \in StockRow
      BY <1>0
    <3> QED
      BY <3>1 DEF StockRow
  <2> HIDE DEF Asked
  <2> QED
    BY <1>3, <1>4, <2>1, <2>2, <2>3
<1>8. ASSUME NEW a \in StockPresses, AdjustCount(a) PROVE Goal
  BY <1>3, <1>8 DEF AdjustCount
<1> QED
  BY <1>1, <1>5, <1>6, <1>7, <1>8
  DEF ServiceNext, PlaceServiceOrder, CancelServiceOrder, ExpireServiceOrder, PayServiceOrder, LoadServiceOrder, OpenTask,
      MakeTask, PublishPaid, TaskRunDies, CompleteTask, countVars

LEMMA NextServiceType ==
  ASSUME ServiceInv, ServiceNext
  PROVE  ServiceTypeOK'
  BY OrdersServedAreTyped, CountsAreTyped, TaskRunsAreTyped, PressesAreTyped, StockPressesAreTyped
  DEF ServiceTypeOK, ServedRow, TaskRow, ReserveStates, RunRow, PressRow, StockRow

\* An order after a move: the one that moved is where it went, the others stay.
LEMMA AfterMove ==
  ASSUME ServiceInv, NEW o \in ServiceOrders, NEW from \in Statuses, NEW to \in Statuses,
         MovesTo(o, from, to), NEW q \in ServiceOrders
  PROVE  /\ q = o => /\ served'[q] = OrderRow(to) /\ task'[q] = TaskOf(to)
                     /\ reserve'[q] = ReserveRow(o, to)
         /\ q # o => served'[q] = served[q] /\ task'[q] = task[q] /\ reserve'[q] = reserve[q]
  BY DEF MovesTo, ServiceInv, ServiceTypeOK

LEMMA RowsAgreeStep ==
  ASSUME ServiceInv, ServiceNext
  PROVE  RowsAgree'
<1> SUFFICES ASSUME NEW q \in ServiceOrders
             PROVE  /\ served'[q] = OrderRow(served'[q].status)
                    /\ task'[q] = TaskOf(served'[q].status)
                    /\ reserve'[q] = ReserveRow(q, served'[q].status)
                    /\ served'[q].status = "PAID" => q \in paidQueue'
  BY DEF RowsAgree, OrderRow, OrderVersion, TaskOf, ReserveRow, ReserveOf
<1>0. /\ served[q] = OrderRow(served[q].status)
      /\ task[q] = TaskOf(served[q].status)
      /\ reserve[q] = ReserveRow(q, served[q].status)
      /\ served[q].status = "PAID" => q \in paidQueue
  BY DEF ServiceInv, RowsAgree
<1>1. /\ served'[q] = OrderRow(served'[q].status)
      /\ task'[q] = TaskOf(served'[q].status)
      /\ reserve'[q] = ReserveRow(q, served'[q].status)
  <2>1. CASE UNCHANGED <<served, task, reserve>>
    BY <1>0, <2>1
  <2>2. ASSUME NEW o \in ServiceOrders, NEW from \in Statuses, NEW to \in Statuses,
               MovesTo(o, from, to)
        PROVE  /\ served'[q] = OrderRow(served'[q].status)
               /\ task'[q] = TaskOf(served'[q].status)
               /\ reserve'[q] = ReserveRow(q, served'[q].status)
    <3>1. OrderRow(to).status = to
      BY DEF OrderRow
    <3> QED
      BY <1>0, <2>2, <3>1, AfterMove
  <2> QED
    BY <2>1, <2>2, OrdersMove
<1>2. ASSUME served'[q].status = "PAID" PROVE q \in paidQueue'
  <2>1. CASE \E r \in TaskRuns, o \in ServiceOrders : LoadServiceOrder(r, o)
    BY <1>0, <1>2, <2>1 DEF LoadServiceOrder
  <2>2. CASE \E r \in TaskRuns : PublishPaid(r)
    BY <1>0, <1>2, <2>2 DEF PublishPaid, ServiceInv, RunsAreLoaded
  <2>3. CASE \E o \in ServiceOrders : PayServiceOrder(o)
    <3>1. PICK o \in ServiceOrders : PayServiceOrder(o)
      BY <2>3
    <3>2. MovesTo(o, "PENDING_PAYMENT", "PAID") /\ paidQueue' = paidQueue \cup {o}
      BY <3>1, PayMoves DEF PayServiceOrder
    <3>3. q # o => served'[q] = served[q]
      BY <3>2, AfterMove DEF Statuses
    <3> QED
      BY <1>0, <1>2, <3>2, <3>3
  <2>4. CASE paidQueue' = paidQueue /\ \A o \in ServiceOrders : ~PayServiceOrder(o)
    <3>1. CASE served[q].status = "PAID"
      BY <1>0, <2>4, <3>1
    <3>2. CASE served[q].status # "PAID"
      <4>1. ASSUME NEW o \in ServiceOrders, PlaceServiceOrder(o) PROVE served'[q].status # "PAID"
        BY <3>2, <4>1, PlaceMoves, AfterMove DEF Statuses, OrderRow
      <4>2. ASSUME NEW o \in ServiceOrders, CancelServiceOrder(o) PROVE served'[q].status # "PAID"
        BY <3>2, <4>2, CancelMoves, AfterMove DEF Statuses, OrderRow
      <4>6. ASSUME NEW o \in ServiceOrders, ExpireServiceOrder(o) PROVE served'[q].status # "PAID"
        BY <3>2, <4>6, ExpireMoves, AfterMove DEF Statuses, OrderRow
      <4>3. ASSUME NEW r \in TaskRuns, MakeTask(r) PROVE served'[q].status # "PAID"
        BY <3>2, <4>3, MakeMoves, AfterMove DEF Statuses, OrderRow
      <4>4. ASSUME NEW c \in TaskPresses, CompleteTask(c) PROVE served'[q].status # "PAID"
        BY <3>2, <4>4, CompleteMoves, AfterMove DEF Statuses, OrderRow
      <4>5. ASSUME UNCHANGED served PROVE served'[q].status # "PAID"
        BY <3>2, <4>5
      <4> QED
        BY <1>2, <2>4, <4>1, <4>2, <4>3, <4>4, <4>5, <4>6
        DEF ServiceNext, LoadServiceOrder, OpenTask, PublishPaid, TaskRunDies, LookForKey,
            AskAdjust, AdjustCount, PressAgain, taskVars
    <3> QED
      BY <3>1, <3>2
  <2> QED
    BY <2>1, <2>2, <2>3, <2>4
    DEF ServiceNext, PlaceServiceOrder, CancelServiceOrder, ExpireServiceOrder, OpenTask, MakeTask, TaskRunDies,
        CompleteTask, LookForKey, AskAdjust, AdjustCount, PressAgain, PayServiceOrder, taskVars
<1> QED
  BY <1>1, <1>2

LEMMA RunsStep ==
  ASSUME ServiceInv, ServiceNext
  PROVE  RunsAreLoaded'
<1> DEFINE Goal == RunsAreLoaded'
<1>0. /\ taskRun \in [TaskRuns -> RunRow] /\ taskPress \in [TaskPresses -> PressRow]
      /\ RunsAreLoaded
  BY DEF ServiceInv, ServiceTypeOK, RunRow, PressRow
<1>1. ASSUME NEW q \in ServiceOrders
      PROVE  /\ served[q].status \in {"PAID", "PROCESSING", "COMPLETED"} =>
                  served'[q].status \in {"PAID", "PROCESSING", "COMPLETED"}
             /\ served[q].status \in {"PROCESSING", "COMPLETED"} =>
                  served'[q].status \in {"PROCESSING", "COMPLETED"}
  <2>1. ASSUME NEW o \in ServiceOrders, NEW from \in Statuses, NEW to \in Statuses,
               MovesTo(o, from, to), q = o
        PROVE  served'[q].status = to /\ <<served[q].status, to>> \in Transitions
    <3>1. served[o].status = from /\ <<from, to>> \in Transitions
      BY <2>1 DEF MovesTo
    <3>2. served'[q] = OrderRow(to)
      BY <2>1, AfterMove
    <3> QED
      BY <2>1, <3>1, <3>2 DEF OrderRow
  <2>2. ASSUME NEW o \in ServiceOrders, NEW from \in Statuses, NEW to \in Statuses,
               MovesTo(o, from, to), q # o
        PROVE  served'[q] = served[q]
    BY <2>2, AfterMove
  <2>3. served'[q] = served[q] \/ <<served[q].status, served'[q].status>> \in Transitions
    BY <2>1, <2>2, OrdersMove
  <2> QED
    BY <2>3 DEF Transitions
<1>2. CASE UNCHANGED <<taskRun, taskPress>>
  BY <1>0, <1>1, <1>2 DEF RunsAreLoaded
<1>3. ASSUME NEW o \in ServiceOrders, NEW r \in TaskRuns, LoadServiceOrder(r, o) PROVE Goal
  <2>1. UNCHANGED <<served, taskPress>>
    BY <1>3 DEF LoadServiceOrder
  <2>2. CASE UNCHANGED taskRun
    BY <1>2, <2>1, <2>2
  <2>3. CASE /\ served[o].status \in {"PAID", "PROCESSING"}
             /\ taskRun' = [taskRun EXCEPT ![r] = [of |-> o, at |-> "loaded"]]
    BY <1>0, <2>1, <2>3 DEF RunsAreLoaded
  <2> QED
    BY <1>3, <2>2, <2>3 DEF LoadServiceOrder
<1>4. ASSUME NEW r \in TaskRuns, MakeTask(r) PROVE Goal
  <2> DEFINE o == taskRun[r].of
  <2>1. /\ o \in ServiceOrders /\ taskRun[r].at = "loaded"
        /\ taskRun' = [taskRun EXCEPT ![r].at = "made"] /\ UNCHANGED taskPress
    BY <1>4, MakeMoves DEF MakeTask
  <2>2. served'[o].status \in {"PROCESSING", "COMPLETED"}
    BY <1>4, <2>1, MakeMoves, AfterMove DEF Statuses, OrderRow
  <2>3. /\ taskRun'[r].of = o /\ taskRun'[r].at = "made"
        /\ \A s \in TaskRuns : s # r => taskRun'[s] = taskRun[s]
    <3> HIDE DEF o
    <3>1. taskRun'[r] = [taskRun[r] EXCEPT !.at = "made"] /\ taskRun[r] \in RunRow
      BY <1>0, <2>1
    <3> QED
      BY <1>0, <2>1, <3>1 DEF RunRow, o
  <2> QED
    BY <1>0, <1>1, <2>1, <2>2, <2>3 DEF RunsAreLoaded
<1>5. ASSUME NEW r \in TaskRuns, PublishPaid(r) \/ TaskRunDies(r) PROVE Goal
  <2>1. taskRun' = [taskRun EXCEPT ![r] = Asleep] /\ UNCHANGED <<served, taskPress>>
    BY <1>5 DEF PublishPaid, TaskRunDies
  <2> QED
    BY <1>0, <2>1 DEF RunsAreLoaded, Asleep
<1>6. ASSUME NEW o \in ServiceOrders, NEW c \in TaskPresses, OpenTask(c, o) PROVE Goal
  <2>1. /\ \A d \in TaskPresses : taskPress'[d] # Unpressed => taskPress'[d].of \in ServiceOrders
        /\ UNCHANGED <<served, taskRun>>
    BY <1>0, <1>6 DEF OpenTask, RunsAreLoaded
  <2> QED
    BY <1>0, <2>1 DEF RunsAreLoaded
<1>7. ASSUME NEW c \in TaskPresses, CompleteTask(c) PROVE Goal
  <2>1. /\ \A d \in TaskPresses : taskPress'[d] # Unpressed => taskPress'[d].of \in ServiceOrders
        /\ UNCHANGED taskRun
    BY <1>0, <1>7 DEF CompleteTask, RunsAreLoaded
  <2> QED
    BY <1>0, <1>1, <2>1 DEF RunsAreLoaded
<1> QED
  BY <1>2, <1>3, <1>4, <1>5, <1>6, <1>7
  DEF ServiceNext, PlaceServiceOrder, CancelServiceOrder, ExpireServiceOrder, PayServiceOrder, LookForKey, AskAdjust,
      AdjustCount, PressAgain, taskVars

LEMMA CountStep ==
  ASSUME ServiceInv, ServiceNext
  PROVE  CountAddsUp'
<1>0. /\ IsFiniteSet(adjusted) /\ IsFiniteSet(Out) /\ Cardinality(Out) \in Nat
      /\ count.available + Cardinality(Out) = FirstStock + Total(adjusted)
      /\ count.available \in Nat /\ FirstStock \in Nat
      /\ adjusted \subseteq (1 .. MaxStockVersion) \X Deltas /\ Deltas \subseteq Int
  BY ServiceAssumption, FS_CardinalityType DEF ServiceInv, CountAddsUp, ServiceTypeOK
<1>1. Total(adjusted) \in Int
  <2>1. \A k \in adjusted : k[2] \in Int
    BY <1>0
  <2> QED
    BY <1>0, <2>1, TotalIsInt
<1>2. CASE UNCHANGED <<count, adjusted, reserve>>
  BY <1>0, <1>2 DEF CountAddsUp, Out
<1>3. ASSUME NEW o \in ServiceOrders, NEW from \in Statuses, NEW to \in Statuses,
             UNCHANGED adjusted, MovesTo(o, from, to), Recounts(o, from, to)
      PROVE CountAddsUp'
  <2>0. \A q \in ServiceOrders : reserve'[q] = IF q = o THEN ReserveRow(o, to) ELSE reserve[q]
    BY <1>3, AfterMove
  <2>1. reserve[o] = ReserveRow(o, from)
    BY <1>3 DEF MovesTo, ServiceInv, RowsAgree
  <2>2. Counted \subseteq ServiceOrders
    BY ServiceAssumption
  <2>3. CASE o \notin Counted
    <3>1. Out' = Out
      BY <2>0, <2>2, <2>3 DEF Out
    <3> QED
      BY <1>0, <1>3, <2>3, <3>1 DEF Recounts, CountAddsUp
  <2>4. CASE o \in Counted /\ from = "none"
    <3>1. to = "PENDING_PAYMENT"
      BY <1>3, <2>4 DEF MovesTo, Transitions
    <3>2. Out' = Out \cup {o} /\ o \notin Out
      BY <2>0, <2>1, <2>2, <2>4, <3>1 DEF Out, ReserveRow, ReserveOf
    <3>3. IsFiniteSet(Out') /\ Cardinality(Out') = Cardinality(Out) + 1
      BY <1>0, <3>2, FS_AddElement
    <3>4. count'.available = count.available + (-1)
      BY <1>3, <2>4 DEF Recounts, Recount
    <3> QED
      BY <1>0, <1>1, <1>3, <3>3, <3>4 DEF CountAddsUp
  <2>5. CASE o \in Counted /\ to = "CANCELLED"
    <3>1. from = "PENDING_PAYMENT"
      BY <1>3, <2>5 DEF MovesTo, Transitions
    <3>2. Out' = Out \ {o} /\ o \in Out
      BY <2>0, <2>1, <2>2, <2>5, <3>1 DEF Out, ReserveRow, ReserveOf
    <3>3. IsFiniteSet(Out') /\ Cardinality(Out') = Cardinality(Out) - 1
      BY <1>0, <3>2, FS_RemoveElement
    <3>4. count'.available = count.available + 1
      BY <1>3, <2>5 DEF Recounts, Recount
    <3> QED
      BY <1>0, <1>1, <1>3, <3>3, <3>4 DEF CountAddsUp
  <2>6. CASE o \in Counted /\ from # "none" /\ to # "CANCELLED"
    <3>1. Out' = Out
      BY <1>3, <2>0, <2>1, <2>2, <2>6 DEF Out, ReserveRow, ReserveOf, MovesTo, Transitions
    <3> QED
      BY <1>0, <1>3, <2>6, <3>1 DEF Recounts, CountAddsUp
  <2> QED
    BY <2>3, <2>4, <2>5, <2>6
<1>4. ASSUME NEW a \in StockPresses, AdjustCount(a) PROVE CountAddsUp'
  <2>0. UNCHANGED reserve
    BY <1>4 DEF AdjustCount, taskVars
  <2>1. ASSUME NEW key \in (1 .. MaxStockVersion) \X Deltas, key \notin adjusted,
               adjusted' = adjusted \cup {key},
               count.available + key[2] >= 0, Recount(key[2])
        PROVE CountAddsUp'
    <3>1. key[2] \in Int /\ \A k \in adjusted \cup {key} : k[2] \in Int
      BY <1>0
    <3>2. Total(adjusted \cup {key}) = Total(adjusted) + key[2]
      BY <1>0, <2>1, <3>1, TotalOfOneMore
    <3>3. count'.available = count.available + key[2]
      BY <2>1 DEF Recount
    <3>4. Out' = Out
      BY <2>0 DEF Out
    <3>5. IsFiniteSet(adjusted')
      BY <1>0, <2>1, FS_AddElement
    <3> DEFINE d == key[2]
               t == Total(adjusted)
               n == Cardinality(Out)
    <3>6. d \in Int /\ t \in Int /\ n \in Nat /\ count.available + n = FirstStock + t
      BY <1>0, <1>1, <3>1
    <3>7. count'.available = count.available + d /\ Total(adjusted') = t + d
      BY <2>1, <3>2, <3>3
    <3> HIDE DEF d, t, n
    <3>8. count'.available + n = FirstStock + Total(adjusted')
      BY <1>0, <3>6, <3>7
    <3> QED
      BY <1>0, <3>4, <3>5, <3>8 DEF CountAddsUp, n
  <2> QED
    BY <1>2, <1>4, <2>0, <2>1, AdjustMoves
<1>5. CASE \E o \in ServiceOrders, from, to \in Statuses :
             UNCHANGED adjusted /\ MovesTo(o, from, to) /\ Recounts(o, from, to)
  BY <1>3, <1>5
<1>6. CASE UNCHANGED <<served, task, reserve>>
  <2>1. ASSUME NEW o \in ServiceOrders,
               PlaceServiceOrder(o) \/ CancelServiceOrder(o) \/ ExpireServiceOrder(o)
             \/ PayServiceOrder(o)
        PROVE FALSE
    <3>1. \E from, to \in Statuses : from # to /\ MovesTo(o, from, to)
      BY <2>1, PlaceMoves, CancelMoves, ExpireMoves, PayMoves DEF Statuses
    <3>2. PICK from \in Statuses, to \in Statuses : from # to /\ MovesTo(o, from, to)
      BY <3>1
    <3>3. served'[o] = OrderRow(to) /\ served[o].status = from
      BY <3>2, AfterMove, ZenonT(60) DEF MovesTo
    <3>4. served'[o].status = to
      BY <3>3 DEF OrderRow
    <3> QED
      BY <1>6, <3>2, <3>3, <3>4
  <2> QED
    BY <1>2, <1>4, <1>6, <2>1
    DEF ServiceNext, LoadServiceOrder, OpenTask, MakeTask, PublishPaid, TaskRunDies, CompleteTask,
        LookForKey, AskAdjust, PressAgain, countVars
<1> QED
  BY <1>5, <1>6, OrdersMove

LEMMA NextService ==
  ASSUME ServiceInv, [ServiceNext]_serviceVars
  PROVE  ServiceInv'
<1>1. CASE ServiceNext
  BY <1>1, NextServiceType, RowsAgreeStep, RunsStep, StockPressesAreTyped, CountStep DEF ServiceInv
<1>2. CASE UNCHANGED serviceVars
  <2> USE <1>2 DEF serviceVars, countVars, taskVars, ServiceInv
  <2>1. ServiceTypeOK'
    BY DEF ServiceTypeOK
  <2>2. RowsAgree' /\ RunsAreLoaded' /\ KeysAreAsked'
    BY DEF RowsAgree, RunsAreLoaded, KeysAreAsked
  <2>3. CountAddsUp'
    BY DEF CountAddsUp, Out
  <2> QED
    BY <2>1, <2>2, <2>3
<1> QED
  BY <1>1, <1>2

(* The rows of an order move together, whatever handler runs, presses and deaths     *)
(* overlap: its version, its task and its reserve follow from its status, and the    *)
(* count adds up.  The inductive invariant of quantity-stock.ts and                  *)
(* manual-fulfillment.ts.                                                            *)
THEOREM ServiceInvariant == ServiceSpec => []ServiceInv
  BY InitService, NextService, PTL DEF ServiceSpec

(* For any orders, runs, presses and adjustments: what is on the shelf, held or       *)
(* delivered is what was there at first and what the owner adjusted, each press of a  *)
(* screen once; a unit leaves with the task that hands it over and the task ends with *)
(* its order.                                                                        *)
THEOREM ServiceServedOnce == ServiceSpec => []ServedOnceFromStock
<1>1. ServiceInv => ServedOnceFromStock
  <2> SUFFICES ASSUME ServiceInv PROVE ServedOnceFromStock
    OBVIOUS
  <2>1. ServiceTypeOK /\ CountAddsUp
    BY DEF ServiceInv
  <2>2. ASSUME NEW o \in ServiceOrders
        PROVE  /\ task[o].status = "COMPLETED" <=> served[o].status = "COMPLETED"
               /\ task[o].status = "OPEN" <=> served[o].status = "PROCESSING"
               /\ reserve[o] = "delivered" <=> o \in Counted /\ task[o].status = "COMPLETED"
               /\ served[o].status = "PAID" => o \in paidQueue
    <3>1. /\ task[o] = TaskOf(served[o].status)
          /\ reserve[o] = ReserveRow(o, served[o].status)
          /\ served[o].status = "PAID" => o \in paidQueue
      BY DEF ServiceInv, RowsAgree
    <3>2. served[o].status \in Statuses
      BY DEF ServiceInv, ServiceTypeOK, Statuses
    <3> QED
      BY <3>1, <3>2 DEF TaskOf, ReserveRow, ReserveOf, Statuses
  <2> QED
    BY <2>1, <2>2 DEF ServedOnceFromStock, CountAddsUp, Out
<1> QED
  BY <1>1, ServiceInvariant, PTL

-----------------------------------------------------------------------------
(* Preorders.  What was received for a preorder follows from its status, and *)
(* a transaction moves the status with the leg; the allocation moves only    *)
(* those who paid their deposit.                                            *)

ReservationRow ==
  [status : Cancellable \cup {"none", "SHOP_CANCELLED", "REFUND_DUE", "DEPOSIT_FORFEITED"},
   unit : Units \cup {NoUnit}, lapsed : BOOLEAN]
UnitRow == [status : {"absent", "AVAILABLE", "RESERVED", "DELIVERED"},
            owner : Preorders \cup {NoPreorder, Shopper}, lapsed : BOOLEAN]
LegRow == [Legs -> {"none", "PRESENTED", "SUCCEEDED", "NEEDS_REVIEW", "EXPIRED"}]
POrderStatuses == {"none", "PAID", "PROCESSING", "FULFILLMENT_NEEDS_REVIEW"}

LegsTotal(p, legs) ==
  (IF legs["DEPOSIT"] = "SUCCEEDED" THEN DepositOf[p] ELSE 0)
  + (IF legs["BALANCE"] = "SUCCEEDED" THEN BalanceOf[p] ELSE 0)

\* A status, the legs of the preorder, whether it queued, what is owed and its order.
LegsAgree(p, status, legs, queued, owed, sold) ==
  /\ legs["DEPOSIT"] = "SUCCEEDED" <=> queued
  /\ status \in {"none", "WAITING_DEPOSIT"} => ~queued
  /\ status \in {"DEPOSIT_PAID", "FULLY_PAID"} \cup Holding => queued
  /\ legs["BALANCE"] = "SUCCEEDED" => queued /\ status \in {"FULLY_PAID", "REFUND_DUE"}
  /\ status = "FULLY_PAID" => legs["BALANCE"] = "SUCCEEDED" \/ BalanceOf[p] = 0
  /\ status \in {"REFUND_DUE", "SHOP_CANCELLED"} => owed = LegsTotal(p, legs)
  /\ owed # 0 => status = "REFUND_DUE"
  /\ sold # "none" =>
       status \in {"FULLY_PAID", "REFUND_DUE"} /\ LegsTotal(p, legs) = DepositOf[p] + BalanceOf[p]

PreorderAgrees(p) ==
  LegsAgree(p, preorder[p].status, leg[p], p \in Range(depositors), obligation[p], pOrder[p])

PreorderInv == PreorderTypeOK /\ \A p \in Preorders : PreorderAgrees(p)

LEMMA InitPreorder == PreorderInit => PreorderInv
<1> SUFFICES ASSUME PreorderInit PROVE PreorderInv
  OBVIOUS
<1> USE PreorderAssumption DEF PreorderInit
<1>1. PreorderTypeOK
  BY DEF PreorderTypeOK, NoReservation, Unstocked, Cancellable, Legs, IsInjective
<1>2. \A p \in Preorders : PreorderAgrees(p)
  BY DEF PreorderAgrees, LegsAgree, NoReservation, Range, Legs, Holding
<1> QED
  BY <1>1, <1>2 DEF PreorderInv

-----------------------------------------------------------------------------
(* The allocation *)

IsServed(s, p) == \E u \in Units : IsPair(s, p, u)

LEMMA BoundUnits ==
  ASSUME NEW asset \in UnitRow, NEW p \in Preorders
  PROVE  BoundTo(asset, p) \in UnitRow /\ Granted(asset, p) \in UnitRow
<1>1. \A a \in UnitRow : BoundTo(a, p) \in UnitRow
  BY DEF BoundTo, UnitRow
<1>2. [asset EXCEPT !.status = "RESERVED", !.lapsed = FALSE] \in UnitRow
  BY DEF UnitRow
<1> QED
  BY <1>1, <1>2 DEF Granted

LEMMA AllocationServes ==
  ASSUME NEW s, s.preorder \in [Preorders -> ReservationRow], s.unit \in [Units -> UnitRow],
         s.pOrder \in [Preorders -> POrderStatuses]
  PROVE  /\ Allocated(s).preorder \in [Preorders -> ReservationRow]
         /\ Allocated(s).unit \in [Units -> UnitRow]
         /\ Allocated(s).pOrder \in [Preorders -> POrderStatuses]
         /\ \A p \in Preorders :
              /\ ~IsServed(s, p) => /\ Allocated(s).preorder[p] = s.preorder[p]
                                    /\ Allocated(s).pOrder[p] = s.pOrder[p]
              /\ IsServed(s, p) =>
                   /\ s.preorder[p].status = "DEPOSIT_PAID"
                   /\ IF IsCovered(p)
                      THEN /\ Allocated(s).preorder[p].status = "FULLY_PAID"
                           /\ Allocated(s).pOrder[p] = "PAID"
                      ELSE /\ Allocated(s).preorder[p].status = "ALLOCATED"
                           /\ Allocated(s).pOrder[p] = s.pOrder[p]
<1> DEFINE lucky == {p \in Preorders : \E u \in Units : IsPair(s, p, u)}
           given == {u \in Units : \E p \in Preorders : IsPair(s, p, u)}
           unitFor == [p \in lucky |-> CHOOSE u \in Units : IsPair(s, p, u)]
           buyerOf == [u \in given |-> CHOOSE p \in Preorders : IsPair(s, p, u)]
           pre == [p \in Preorders |-> IF p \in lucky THEN Served(p, unitFor[p]) ELSE s.preorder[p]]
           stock == [u \in Units |-> IF u \in given THEN Granted(s.unit[u], buyerOf[u]) ELSE s.unit[u]]
           orders == [p \in Preorders |-> IF p \in lucky /\ IsCovered(p) THEN "PAID" ELSE s.pOrder[p]]
<1>1. Allocated(s) = State(pre, stock, orders)
  BY DEF Allocated
<1>2. ASSUME NEW p \in lucky
      PROVE  unitFor[p] \in Units /\ s.preorder[p].status = "DEPOSIT_PAID"
  BY DEF IsPair, Waiting
<1>3. ASSUME NEW u \in given PROVE buyerOf[u] \in Preorders
  OBVIOUS
<1>4. \A p \in Preorders : p \in lucky <=> IsServed(s, p)
  BY DEF IsServed
<1> HIDE DEF lucky, given, unitFor, buyerOf
<1>5. \A p \in Preorders : p \in lucky => Served(p, unitFor[p]) \in ReservationRow
  BY <1>2 DEF Served, ReservationRow, Cancellable
<1>6. pre \in [Preorders -> ReservationRow]
  BY <1>5
<1>7. \A u \in Units : u \in given => Granted(s.unit[u], buyerOf[u]) \in UnitRow
  BY <1>3, BoundUnits
<1>8. stock \in [Units -> UnitRow]
  BY <1>7
<1>9. orders \in [Preorders -> POrderStatuses]
  BY DEF POrderStatuses
<1>10. ASSUME NEW p \in Preorders, p \in lucky
       PROVE  /\ pre[p].status = IF IsCovered(p) THEN "FULLY_PAID" ELSE "ALLOCATED"
              /\ orders[p] = IF IsCovered(p) THEN "PAID" ELSE s.pOrder[p]
  BY <1>10 DEF Served
<1>11. ASSUME NEW p \in Preorders, p \notin lucky
       PROVE  pre[p] = s.preorder[p] /\ orders[p] = s.pOrder[p]
  BY <1>11
<1> HIDE DEF pre, stock, orders
<1>12. Allocated(s).preorder = pre /\ Allocated(s).unit = stock /\ Allocated(s).pOrder = orders
  BY <1>1 DEF State
<1> QED
  BY <1>2, <1>4, <1>6, <1>8, <1>9, <1>10, <1>11, <1>12

\* Who is served had paid his deposit, and nothing else of his changes.
LEMMA ServedAgrees ==
  ASSUME NEW p \in Preorders, NEW legs, NEW queued, NEW owed, NEW sold,
         LegsAgree(p, "DEPOSIT_PAID", legs, queued, owed, sold)
  PROVE  /\ IsCovered(p) => LegsAgree(p, "FULLY_PAID", legs, queued, owed, "PAID")
         /\ ~IsCovered(p) => LegsAgree(p, "ALLOCATED", legs, queued, owed, sold)
<1> USE PreorderAssumption DEF LegsAgree, Holding
<1>1. legs["DEPOSIT"] = "SUCCEEDED" /\ legs["BALANCE"] # "SUCCEEDED" /\ sold = "none" /\ owed = 0
  OBVIOUS
<1>2. LegsTotal(p, legs) = DepositOf[p]
  BY <1>1 DEF LegsTotal
<1> QED
  BY <1>1, <1>2 DEF IsCovered

\* A transaction that ends with the allocation keeps what it had kept before it.
LEMMA AllocationKeeps ==
  ASSUME NEW s, s.preorder \in [Preorders -> ReservationRow], s.unit \in [Units -> UnitRow],
         s.pOrder \in [Preorders -> POrderStatuses], Becomes(Allocated(s)),
         leg' \in [Preorders -> LegRow], obligation' \in [Preorders -> Nat],
         depositors' \in Seq(Preorders), IsInjective(depositors'),
         \A p \in Preorders :
           LegsAgree(p, s.preorder[p].status, leg'[p], p \in Range(depositors'), obligation'[p],
                     s.pOrder[p])
  PROVE  PreorderInv'
<1>1. /\ preorder' \in [Preorders -> ReservationRow] /\ unit' \in [Units -> UnitRow]
      /\ pOrder' \in [Preorders -> POrderStatuses]
      /\ \A p \in Preorders :
           /\ ~IsServed(s, p) => preorder'[p] = s.preorder[p] /\ pOrder'[p] = s.pOrder[p]
           /\ IsServed(s, p) =>
                /\ s.preorder[p].status = "DEPOSIT_PAID"
                /\ IF IsCovered(p) THEN preorder'[p].status = "FULLY_PAID" /\ pOrder'[p] = "PAID"
                   ELSE preorder'[p].status = "ALLOCATED" /\ pOrder'[p] = s.pOrder[p]
  BY AllocationServes DEF Becomes
<1>2. ASSUME NEW p \in Preorders PROVE PreorderAgrees(p)'
  <2>1. LegsAgree(p, s.preorder[p].status, leg'[p], p \in Range(depositors'), obligation'[p], s.pOrder[p])
    OBVIOUS
  <2>2. LegsAgree(p, preorder'[p].status, leg'[p], p \in Range(depositors'), obligation'[p], pOrder'[p])
    <3>1. CASE ~IsServed(s, p)
      BY <1>1, <2>1, <3>1
    <3>2. CASE IsServed(s, p)
      <4>1. LegsAgree(p, "DEPOSIT_PAID", leg'[p], p \in Range(depositors'), obligation'[p], s.pOrder[p])
        BY <1>1, <2>1, <3>2
      <4>2. /\ IsCovered(p) => LegsAgree(p, "FULLY_PAID", leg'[p], p \in Range(depositors'), obligation'[p], "PAID")
            /\ ~IsCovered(p) => LegsAgree(p, "ALLOCATED", leg'[p], p \in Range(depositors'), obligation'[p], s.pOrder[p])
        BY <4>1, ServedAgrees
      <4> QED
        BY <1>1, <3>2, <4>2
    <3> QED
      BY <3>1, <3>2
  <2> QED
    BY <2>2 DEF PreorderAgrees, LegsAgree, LegsTotal
<1> QED
  BY <1>1, <1>2 DEF PreorderInv, PreorderTypeOK, ReservationRow, UnitRow, LegRow, POrderStatuses

\* The types of a state, field by field.
LEMMA PreorderTyped ==
  PreorderTypeOK <=>
    /\ preorder \in [Preorders -> ReservationRow] /\ unit \in [Units -> UnitRow]
    /\ leg \in [Preorders -> LegRow] /\ pOrder \in [Preorders -> POrderStatuses]
    /\ obligation \in [Preorders -> Nat]
    /\ depositors \in Seq(Preorders) /\ IsInjective(depositors)
  BY DEF PreorderTypeOK, ReservationRow, UnitRow, LegRow, POrderStatuses

\* The deposit: into the queue, and the queue is served.
LEMMA DepositStep ==
  ASSUME PreorderInv, NEW p \in Preorders, DepositSettles(p)
  PROVE  PreorderInv'
<1> DEFINE pre == [preorder EXCEPT ![p].status = "DEPOSIT_PAID"]
           s == [Now EXCEPT !.preorder = pre]
<1>0. /\ preorder \in [Preorders -> ReservationRow] /\ unit \in [Units -> UnitRow]
      /\ leg \in [Preorders -> LegRow] /\ pOrder \in [Preorders -> POrderStatuses]
      /\ obligation \in [Preorders -> Nat]
      /\ depositors \in Seq(Preorders) /\ IsInjective(depositors)
  BY PreorderTyped DEF PreorderInv
<1>1. /\ preorder[p].status = "WAITING_DEPOSIT" /\ p \notin Range(depositors)
      /\ leg[p]["BALANCE"] # "SUCCEEDED" /\ obligation[p] = 0 /\ pOrder[p] = "none"
  <2>1. preorder[p].status = "WAITING_DEPOSIT"
    BY DEF DepositSettles, Settleable, Payable
  <2> QED
    BY <2>1 DEF PreorderInv, PreorderAgrees, LegsAgree
<1>2. s.preorder = pre /\ s.unit = unit /\ s.pOrder = pOrder
  BY DEF Now, State
<1>3. pre \in [Preorders -> ReservationRow] /\ pre[p].status = "DEPOSIT_PAID"
      /\ \A q \in Preorders : q # p => pre[q] = preorder[q]
  BY <1>0 DEF ReservationRow, Cancellable
<1>4. /\ leg' \in [Preorders -> LegRow] /\ \A q \in Preorders : q # p => leg'[q] = leg[q]
      /\ leg'[p]["DEPOSIT"] = "SUCCEEDED" /\ leg'[p]["BALANCE"] = leg[p]["BALANCE"]
  BY <1>0 DEF DepositSettles, LegRow, Legs
<1>5. depositors' = Append(depositors, p) /\ obligation' = obligation /\ Becomes(Allocated(s))
  BY DEF DepositSettles
<1> HIDE DEF s, pre
<1>6. /\ depositors' \in Seq(Preorders) /\ IsInjective(depositors')
      /\ p \in Range(depositors')
      /\ \A q \in Preorders : q # p => (q \in Range(depositors') <=> q \in Range(depositors))
  <2>1. /\ Len(depositors') = Len(depositors) + 1 /\ Len(depositors) \in Nat
        /\ depositors'[Len(depositors) + 1] = p
        /\ \A i \in 1 .. Len(depositors) : depositors'[i] = depositors[i]
        /\ depositors' \in Seq(Preorders)
        /\ DOMAIN depositors' = 1 .. Len(depositors) + 1 /\ DOMAIN depositors = 1 .. Len(depositors)
    BY <1>0, <1>5
  <2>2. Range(depositors) = {depositors[i] : i \in 1 .. Len(depositors)}
    BY <2>1 DEF Range
  <2>3. Range(depositors') = {depositors'[i] : i \in 1 .. Len(depositors) + 1}
    BY <2>1 DEF Range
  <2>4. \A i \in 1 .. Len(depositors) + 1 : i \in 1 .. Len(depositors) \/ i = Len(depositors) + 1
    BY <2>1
  <2>5. \A i \in 1 .. Len(depositors) : depositors[i] # p /\ i # Len(depositors) + 1
    BY <1>1, <2>1, <2>2
  <2>6. IsInjective(depositors')
    <3> SUFFICES ASSUME NEW i \in 1 .. Len(depositors) + 1, NEW j \in 1 .. Len(depositors) + 1,
                        depositors'[i] = depositors'[j]
                 PROVE  i = j
      BY <2>1 DEF IsInjective
    <3>1. \A a, b \in 1 .. Len(depositors) : depositors[a] = depositors[b] => a = b
      BY <1>0, <2>1 DEF IsInjective
    <3> QED
      BY <2>1, <2>4, <2>5, <3>1
  <2>7. ASSUME NEW q PROVE q \in Range(depositors') <=> q \in Range(depositors) \/ q = p
    <3>1. q \in Range(depositors') => q \in Range(depositors) \/ q = p
      BY <2>1, <2>2, <2>3, <2>4
    <3>2. Len(depositors) + 1 \in 1 .. Len(depositors) + 1 /\ 1 .. Len(depositors) \subseteq 1 .. Len(depositors) + 1
      BY <2>1
    <3>3. q \in Range(depositors) => q \in Range(depositors')
      BY <2>1, <2>2, <2>3, <3>2
    <3>4. p \in Range(depositors')
      BY <2>1, <2>3, <3>2
    <3> QED
      BY <3>1, <3>3, <3>4
  <2> QED
    BY <2>1, <2>6, <2>7
<1>7. ASSUME NEW q \in Preorders
      PROVE  LegsAgree(q, s.preorder[q].status, leg'[q], q \in Range(depositors'), obligation'[q],
                       s.pOrder[q])
  <2>1. PreorderAgrees(q)
    BY DEF PreorderInv
  <2>2. CASE q # p
    BY <1>2, <1>3, <1>4, <1>5, <1>6, <2>1, <2>2 DEF PreorderAgrees, LegsAgree, LegsTotal
  <2>3. CASE q = p
    BY <1>1, <1>2, <1>3, <1>4, <1>5, <1>6, <2>3 DEF LegsAgree, Holding
  <2> QED
    BY <2>2, <2>3
<1> QED
  BY <1>0, <1>2, <1>3, <1>4, <1>5, <1>6, <1>7, AllocationKeeps

\* Deposits are forfeited, their intents closed, and the queue is served.
LEMMA ForfeitStep ==
  ASSUME PreorderInv, ForfeitExpired
  PROVE  PreorderInv'
<1> DEFINE freed == {preorder[p].unit : p \in Expired}
           pre == [p \in Preorders |-> IF p \in Expired
                                       THEN [preorder[p] EXCEPT !.status = "DEPOSIT_FORFEITED"]
                                       ELSE preorder[p]]
           stock == [u \in Units |-> IF u \in freed /\ Unbound(unit[u])
                                     THEN [Unstocked EXCEPT !.status = "AVAILABLE"]
                                     ELSE unit[u]]
           s == State(pre, stock, pOrder)
<1>0. /\ preorder \in [Preorders -> ReservationRow] /\ unit \in [Units -> UnitRow]
      /\ leg \in [Preorders -> LegRow] /\ pOrder \in [Preorders -> POrderStatuses]
      /\ obligation \in [Preorders -> Nat]
      /\ depositors \in Seq(Preorders) /\ IsInjective(depositors)
  BY PreorderTyped DEF PreorderInv
<1>1. /\ depositors' = depositors /\ obligation' = obligation /\ Becomes(Allocated(s))
      /\ leg' = [p \in Preorders |-> [l \in Legs |->
           IF p \in Expired /\ leg[p][l] = "PRESENTED" THEN "EXPIRED" ELSE leg[p][l]]]
  BY DEF ForfeitExpired
<1>2. /\ s.preorder = pre /\ s.unit = stock /\ s.pOrder = pOrder
  BY DEF State
<1>3. /\ pre \in [Preorders -> ReservationRow]
      /\ \A p \in Preorders :
           /\ p \in Expired => preorder[p].status \in Holding /\ pre[p].status = "DEPOSIT_FORFEITED"
           /\ p \notin Expired => pre[p] = preorder[p]
  BY <1>0 DEF ReservationRow, Expired
<1>4. stock \in [Units -> UnitRow]
  <2>1. [Unstocked EXCEPT !.status = "AVAILABLE"] \in UnitRow
    BY DEF Unstocked, UnitRow
  <2> QED
    BY <1>0, <2>1
<1>5. /\ leg' \in [Preorders -> LegRow]
      /\ \A p \in Preorders, l \in Legs : leg'[p][l] = "SUCCEEDED" <=> leg[p][l] = "SUCCEEDED"
  BY <1>0, <1>1 DEF LegRow
<1> HIDE DEF s, pre, stock
<1>6. ASSUME NEW p \in Preorders
      PROVE  LegsAgree(p, s.preorder[p].status, leg'[p], p \in Range(depositors'), obligation'[p],
                       s.pOrder[p])
  <2>1. PreorderAgrees(p)
    BY DEF PreorderInv
  <2>2. LegsTotal(p, leg'[p]) = LegsTotal(p, leg[p])
    BY <1>5 DEF LegsTotal, Legs
  <2>3. \A l \in Legs : leg'[p][l] = "SUCCEEDED" <=> leg[p][l] = "SUCCEEDED"
    BY <1>5
  <2>4. CASE p \notin Expired
    BY <1>1, <1>2, <1>3, <2>1, <2>2, <2>3, <2>4 DEF PreorderAgrees, LegsAgree, Legs
  <2>5. CASE p \in Expired
    BY <1>1, <1>2, <1>3, <2>1, <2>2, <2>3, <2>5 DEF PreorderAgrees, LegsAgree, Legs, Holding
  <2> QED
    BY <2>4, <2>5
<1> QED
  BY <1>0, <1>1, <1>2, <1>3, <1>4, <1>5, <1>6, AllocationKeeps

\* The unit of a cancelled reservation is free.
LEMMA FreedUnit ==
  ASSUME unit \in [Units -> UnitRow], NEW u
  PROVE  (IF u \in Units /\ unit[u].status = "RESERVED"
          THEN [unit EXCEPT ![u].status = "AVAILABLE", ![u].lapsed = FALSE]
          ELSE unit) \in [Units -> UnitRow]
<1>1. CASE u \in Units /\ unit[u].status = "RESERVED"
  <2> DEFINE freed == [unit[u] EXCEPT !.status = "AVAILABLE", !.lapsed = FALSE]
             stock == [unit EXCEPT ![u].status = "AVAILABLE", ![u].lapsed = FALSE]
  <2>1. freed \in UnitRow
    BY <1>1 DEF UnitRow
  <2>2. stock = [unit EXCEPT ![u] = freed]
    BY <1>1
  <2>3. stock \in [Units -> UnitRow]
    <3> HIDE DEF stock, freed
    <3> QED
      BY <2>1, <2>2
  <2> QED
    BY <1>1, <2>3
<1> QED
  BY <1>1

\* The shop's cancel: what was collected is owed, and the queue is served.
LEMMA CancelStep ==
  ASSUME PreorderInv, NEW p \in Preorders, ShopCancel(p)
  PROVE  PreorderInv'
<1> DEFINE u == preorder[p].unit
           status == IF Collected(p) > 0 THEN "REFUND_DUE" ELSE "SHOP_CANCELLED"
           pre == [preorder EXCEPT ![p] = [status |-> status, unit |-> NoUnit, lapsed |-> FALSE]]
           stock == IF u \in Units /\ unit[u].status = "RESERVED"
                    THEN [unit EXCEPT ![u].status = "AVAILABLE", ![u].lapsed = FALSE]
                    ELSE unit
           s == State(pre, stock, pOrder)
<1>0. /\ preorder \in [Preorders -> ReservationRow] /\ unit \in [Units -> UnitRow]
      /\ leg \in [Preorders -> LegRow] /\ pOrder \in [Preorders -> POrderStatuses]
      /\ obligation \in [Preorders -> Nat]
      /\ depositors \in Seq(Preorders) /\ IsInjective(depositors)
  BY PreorderTyped DEF PreorderInv
<1>1. /\ depositors' = depositors /\ leg' = leg /\ Becomes(Allocated(s))
      /\ obligation' = [obligation EXCEPT ![p] = Collected(p)]
      /\ preorder[p].status \in Cancellable
  BY DEF ShopCancel
<1>2. /\ s.preorder = pre /\ s.unit = stock /\ s.pOrder = pOrder
  BY DEF State
<1>3. /\ DepositOf[p] \in Nat \ {0} /\ BalanceOf[p] \in Nat
      /\ PreorderAgrees(p)
  BY PreorderAssumption DEF PreorderInv
<1>4. Collected(p) = LegsTotal(p, leg[p]) /\ Collected(p) \in Nat
      /\ (p \in Range(depositors) <=> Collected(p) > 0)
  <2>1. CASE preorder[p].status = "FULLY_PAID"
    BY <1>3, <2>1 DEF Collected, LegsTotal, PreorderAgrees, LegsAgree
  <2>2. CASE preorder[p].status # "FULLY_PAID"
    <3>1. leg[p]["BALANCE"] # "SUCCEEDED"
      BY <1>1, <1>3, <2>2 DEF PreorderAgrees, LegsAgree, Cancellable
    <3> QED
      BY <1>3, <2>2, <3>1 DEF Collected, LegsTotal, PreorderAgrees, LegsAgree
  <2> QED
    BY <2>1, <2>2
<1>5. pre \in [Preorders -> ReservationRow] /\ pre[p].status = status
      /\ \A q \in Preorders : q # p => pre[q] = preorder[q]
  BY <1>0 DEF ReservationRow
<1>6. stock \in [Units -> UnitRow]
  BY <1>0, FreedUnit
<1>7. /\ obligation' \in [Preorders -> Nat] /\ obligation'[p] = Collected(p)
      /\ \A q \in Preorders : q # p => obligation'[q] = obligation[q]
  BY <1>0, <1>1, <1>4
<1> HIDE DEF s, pre, stock
<1>8. ASSUME NEW q \in Preorders
      PROVE  LegsAgree(q, s.preorder[q].status, leg'[q], q \in Range(depositors'), obligation'[q],
                       s.pOrder[q])
  <2>1. PreorderAgrees(q)
    BY DEF PreorderInv
  <2>2. CASE q # p
    BY <1>1, <1>2, <1>5, <1>7, <2>1, <2>2 DEF PreorderAgrees, LegsAgree, LegsTotal
  <2>3. CASE q = p
    <3>1. pOrder[p] # "none" => LegsTotal(p, leg[p]) = DepositOf[p] + BalanceOf[p]
      BY <1>3 DEF PreorderAgrees, LegsAgree
    <3>2. leg[p]["DEPOSIT"] = "SUCCEEDED" <=> p \in Range(depositors)
      BY <1>3 DEF PreorderAgrees, LegsAgree
    <3>3. leg[p]["BALANCE"] = "SUCCEEDED" => p \in Range(depositors)
      BY <1>3 DEF PreorderAgrees, LegsAgree
    <3>4. pOrder[p] # "none" => p \in Range(depositors)
      BY <1>3, <1>4, <3>1
    <3>5. status \in {"REFUND_DUE", "SHOP_CANCELLED"} /\ (status = "REFUND_DUE" <=> p \in Range(depositors))
      BY <1>4
    <3> HIDE DEF status
    <3> QED
      BY <1>1, <1>2, <1>4, <1>5, <1>7, <2>3, <3>1, <3>2, <3>3, <3>4, <3>5 DEF LegsAgree, Holding
  <2> QED
    BY <2>2, <2>3
<1> QED
  BY <1>0, <1>1, <1>2, <1>5, <1>6, <1>7, <1>8, AllocationKeeps

\* The balance: the purchase is finalized.
LEMMA BalanceLegStep ==
  ASSUME PreorderInv, NEW p \in Preorders, BalanceSettles(p)
  PROVE  PreorderInv'
<1> DEFINE u == preorder[p].unit
<1>0. /\ preorder \in [Preorders -> ReservationRow] /\ unit \in [Units -> UnitRow]
      /\ leg \in [Preorders -> LegRow] /\ pOrder \in [Preorders -> POrderStatuses]
      /\ obligation \in [Preorders -> Nat]
      /\ depositors \in Seq(Preorders) /\ IsInjective(depositors)
  BY PreorderTyped DEF PreorderInv
<1>1. preorder[p].status \in Holding /\ PreorderAgrees(p)
  BY DEF BalanceSettles, Settleable, Payable, PreorderInv
<1>2. /\ preorder' = [preorder EXCEPT ![p].status = "FULLY_PAID"]
      /\ unit' = IF u \in Units THEN [unit EXCEPT ![u] = BoundTo(@, p)] ELSE unit
      /\ pOrder' = [pOrder EXCEPT ![p] = "PAID"]
      /\ leg' = [leg EXCEPT ![p]["BALANCE"] = "SUCCEEDED"]
      /\ depositors' = depositors /\ obligation' = obligation
  BY DEF BalanceSettles, Becomes, Finalized, Now, State
<1>3. /\ preorder' \in [Preorders -> ReservationRow] /\ preorder'[p].status = "FULLY_PAID"
      /\ \A q \in Preorders : q # p => preorder'[q] = preorder[q]
  BY <1>0, <1>2 DEF ReservationRow, Cancellable
<1>4. unit' \in [Units -> UnitRow]
  BY <1>0, <1>2, BoundUnits
<1>5. /\ pOrder' \in [Preorders -> POrderStatuses] /\ pOrder'[p] = "PAID"
      /\ \A q \in Preorders : q # p => pOrder'[q] = pOrder[q]
  BY <1>0, <1>2 DEF POrderStatuses
<1>6. /\ leg' \in [Preorders -> LegRow] /\ \A q \in Preorders : q # p => leg'[q] = leg[q]
      /\ leg'[p]["BALANCE"] = "SUCCEEDED" /\ leg'[p]["DEPOSIT"] = leg[p]["DEPOSIT"]
  BY <1>0, <1>2 DEF LegRow, Legs
<1>7. ASSUME NEW q \in Preorders PROVE PreorderAgrees(q)'
  <2>1. CASE q # p
    BY <1>2, <1>3, <1>5, <1>6, <2>1 DEF PreorderInv, PreorderAgrees, LegsAgree, LegsTotal
  <2>2. CASE q = p
    <3>1. /\ leg[p]["DEPOSIT"] = "SUCCEEDED" /\ p \in Range(depositors) /\ obligation[p] = 0
      BY <1>1 DEF PreorderAgrees, LegsAgree, Holding
    <3>2. LegsTotal(p, leg'[p]) = DepositOf[p] + BalanceOf[p]
      BY <1>6, <3>1 DEF LegsTotal
    <3> QED
      BY <1>2, <1>3, <1>5, <1>6, <2>2, <3>1, <3>2 DEF PreorderAgrees, LegsAgree, LegsTotal, Holding
  <2> QED
    BY <2>1, <2>2
<1> QED
  BY <1>0, <1>2, <1>3, <1>4, <1>5, <1>6, <1>7, PreorderTyped DEF PreorderInv, PreorderTypeOK,
     ReservationRow, UnitRow, LegRow, POrderStatuses

\* A reservation begins, a request for a leg is shown, or its money is set aside.
LEMMA ReservationStep ==
  ASSUME PreorderInv, NEW p \in Preorders,
         Reserve(p) \/ \E l \in Legs : PresentLeg(p, l) \/ LegToReview(p, l)
  PROVE  PreorderInv'
<1>0. /\ preorder \in [Preorders -> ReservationRow] /\ unit \in [Units -> UnitRow]
      /\ leg \in [Preorders -> LegRow] /\ pOrder \in [Preorders -> POrderStatuses]
      /\ obligation \in [Preorders -> Nat]
      /\ depositors \in Seq(Preorders) /\ IsInjective(depositors)
  BY PreorderTyped DEF PreorderInv
<1>1. CASE Reserve(p)
  <2>1. /\ preorder[p].status = "none" /\ preorder' = [preorder EXCEPT ![p].status = "WAITING_DEPOSIT"]
        /\ UNCHANGED <<depositors, unit, leg, obligation, pOrder>>
    BY <1>1 DEF Reserve
  <2>2. /\ preorder' \in [Preorders -> ReservationRow] /\ preorder'[p].status = "WAITING_DEPOSIT"
        /\ \A q \in Preorders : q # p => preorder'[q] = preorder[q]
    BY <1>0, <2>1 DEF ReservationRow, Cancellable
  <2>3. ASSUME NEW q \in Preorders PROVE PreorderAgrees(q)'
    BY <2>1, <2>2 DEF PreorderInv, PreorderAgrees, LegsAgree, LegsTotal, Holding
  <2> QED
    BY <1>0, <2>1, <2>2, <2>3 DEF PreorderInv, PreorderTypeOK, ReservationRow, UnitRow, LegRow, POrderStatuses
<1>2. ASSUME NEW l \in Legs, PresentLeg(p, l) \/ LegToReview(p, l) PROVE PreorderInv'
  <2>1. UNCHANGED <<preorder, depositors, unit, obligation, pOrder>> /\ leg[p][l] # "SUCCEEDED"
    BY <1>2 DEF PresentLeg, LegToReview, Payable, PreorderInv, PreorderAgrees, LegsAgree, Holding
  <2>2. PICK w \in {"PRESENTED", "NEEDS_REVIEW"} : leg' = [leg EXCEPT ![p][l] = w]
    BY <1>2 DEF PresentLeg, LegToReview
  <2>3. /\ leg' \in [Preorders -> LegRow]
        /\ \A q \in Preorders, k \in Legs : leg'[q][k] = "SUCCEEDED" <=> leg[q][k] = "SUCCEEDED"
    BY <1>0, <2>1, <2>2 DEF LegRow
  <2>4. ASSUME NEW q \in Preorders PROVE PreorderAgrees(q)'
    <3>1. /\ leg'[q]["DEPOSIT"] = "SUCCEEDED" <=> leg[q]["DEPOSIT"] = "SUCCEEDED"
          /\ leg'[q]["BALANCE"] = "SUCCEEDED" <=> leg[q]["BALANCE"] = "SUCCEEDED"
      BY <2>3 DEF Legs
    <3> QED
      BY <2>1, <3>1 DEF PreorderInv, PreorderAgrees, LegsAgree, LegsTotal
  <2> QED
    BY <1>0, <2>1, <2>3, <2>4 DEF PreorderInv, PreorderTypeOK, ReservationRow, UnitRow, LegRow, POrderStatuses
<1> QED
  BY <1>1, <1>2

\* Time passes, units move, and orders are fulfilled: no leg and no status moves.
LEMMA GoodsStep ==
  ASSUME PreorderInv,
         \/ \E p \in Preorders : HoldLapses(p) \/ FulfilPreorder(p)
         \/ \E u \in Units : \/ ReservationLapses(u) \/ SweepUnit(u) \/ Restock(u)
                             \/ ShopperReserves(u) \/ ShopperGets(u)
  PROVE  PreorderInv'
<1>0. /\ preorder \in [Preorders -> ReservationRow] /\ unit \in [Units -> UnitRow]
      /\ leg \in [Preorders -> LegRow] /\ pOrder \in [Preorders -> POrderStatuses]
      /\ obligation \in [Preorders -> Nat]
      /\ depositors \in Seq(Preorders) /\ IsInjective(depositors)
  BY PreorderTyped DEF PreorderInv
<1>1. UNCHANGED <<depositors, leg, obligation>>
  BY DEF HoldLapses, FulfilPreorder, ReservationLapses, SweepUnit, Restock, ShopperReserves, ShopperGets
<1>2. ASSUME preorder' \in [Preorders -> ReservationRow], unit' \in [Units -> UnitRow],
             pOrder' \in [Preorders -> POrderStatuses],
             \A p \in Preorders : /\ preorder'[p].status = preorder[p].status
                                  /\ pOrder'[p] = "none" <=> pOrder[p] = "none"
      PROVE  PreorderInv'
  <2>1. ASSUME NEW p \in Preorders PROVE PreorderAgrees(p)'
    BY <1>1, <1>2 DEF PreorderInv, PreorderAgrees, LegsAgree, LegsTotal
  <2> QED
    BY <1>0, <1>1, <1>2, <2>1 DEF PreorderInv, PreorderTypeOK, ReservationRow, UnitRow, LegRow, POrderStatuses
<1>3. ASSUME NEW p \in Preorders, HoldLapses(p) PROVE PreorderInv'
  <2>1. /\ preorder' = [preorder EXCEPT ![p].lapsed = TRUE] /\ pOrder' = pOrder
        /\ \/ unit' = unit
           \/ unit' = [unit EXCEPT ![preorder[p].unit].lapsed = TRUE]
    BY <1>3 DEF HoldLapses
  <2>2. preorder' \in [Preorders -> ReservationRow]
        /\ \A q \in Preorders : preorder'[q].status = preorder[q].status
    <3>1. preorder' = [preorder EXCEPT ![p] = [preorder[p] EXCEPT !.lapsed = TRUE]]
      BY <2>1
    <3>2. /\ [preorder[p] EXCEPT !.lapsed = TRUE] \in ReservationRow
          /\ [preorder[p] EXCEPT !.lapsed = TRUE].status = preorder[p].status
      BY <1>0 DEF ReservationRow
    <3> QED
      BY <1>0, <3>1, <3>2
  <2>3. unit' \in [Units -> UnitRow]
    <3> DEFINE u == preorder[p].unit
    <3>1. u \in Units => [unit[u] EXCEPT !.lapsed = TRUE] \in UnitRow
      BY <1>0 DEF UnitRow
    <3>2. unit' = unit \/ unit' = [unit EXCEPT ![u] = [unit[u] EXCEPT !.lapsed = TRUE]]
      BY <2>1
    <3> HIDE DEF u
    <3> QED
      BY <1>0, <3>1, <3>2
  <2> QED
    BY <1>0, <1>2, <2>1, <2>2, <2>3
<1>4. ASSUME NEW p \in Preorders, FulfilPreorder(p) PROVE PreorderInv'
  <2>1. pOrder[p] = "PAID" /\ preorder' = preorder
    BY <1>4 DEF FulfilPreorder
  <2>2. /\ pOrder' = [pOrder EXCEPT ![p] = "PROCESSING"] \/ pOrder' = [pOrder EXCEPT ![p] = "FULFILLMENT_NEEDS_REVIEW"]
        /\ \/ unit' = unit
           \/ \E u \in Units : unit' = [unit EXCEPT ![u] = [status |-> "DELIVERED", owner |-> p, lapsed |-> FALSE]]
    BY <1>4 DEF FulfilPreorder
  <2>3. unit' \in [Units -> UnitRow]
    <3>1. [status |-> "DELIVERED", owner |-> p, lapsed |-> FALSE] \in UnitRow
      BY DEF UnitRow
    <3> QED
      BY <1>0, <2>2, <3>1
  <2>4. /\ pOrder' \in [Preorders -> POrderStatuses]
        /\ \A q \in Preorders : pOrder'[q] = "none" <=> pOrder[q] = "none"
    BY <1>0, <2>1, <2>2 DEF POrderStatuses
  <2> QED
    BY <1>0, <1>2, <2>1, <2>3, <2>4
<1>5. ASSUME NEW u \in Units,
             ReservationLapses(u) \/ SweepUnit(u) \/ Restock(u) \/ ShopperReserves(u) \/ ShopperGets(u)
      PROVE  PreorderInv'
  <2>1. preorder' = preorder /\ pOrder' = pOrder
    BY <1>5 DEF ReservationLapses, SweepUnit, Restock, ShopperReserves, ShopperGets
  <2>2. unit' \in [Units -> UnitRow]
    <3>1. CASE ReservationLapses(u)
      BY <1>0, <3>1 DEF ReservationLapses, UnitRow
    <3>2. CASE SweepUnit(u)
      BY <1>0, <3>2 DEF SweepUnit, UnitRow, Unstocked
    <3>3. CASE Restock(u) \/ ShopperGets(u)
      <4>1. \A v \in Units, w \in {"AVAILABLE", "DELIVERED"} : [unit[v] EXCEPT !.status = w] \in UnitRow
        BY <1>0 DEF UnitRow
      <4>2. \E w \in {"AVAILABLE", "DELIVERED"} : unit' = [unit EXCEPT ![u] = [unit[u] EXCEPT !.status = w]]
        BY <3>3 DEF Restock, ShopperGets
      <4> QED
        BY <1>0, <4>1, <4>2
    <3>4. CASE ShopperReserves(u)
      BY <1>0, <3>4 DEF ShopperReserves, UnitRow
    <3> QED
      BY <1>5, <3>1, <3>2, <3>3, <3>4
  <2> QED
    BY <1>0, <1>2, <2>1, <2>2
<1> QED
  BY <1>3, <1>4, <1>5

LEMMA NextPreorder == PreorderInv /\ [PreorderNext]_preorderVars => PreorderInv'
<1>1. PreorderInv /\ UNCHANGED preorderVars => PreorderInv'
  BY DEF preorderVars, PreorderInv, PreorderTypeOK, PreorderAgrees
<1> QED
  BY <1>1, DepositStep, ForfeitStep, CancelStep, BalanceLegStep, ReservationStep, GoodsStep DEF PreorderNext

\* The legs of a preorder follow its status, whatever happens to the stock.
THEOREM PreorderInvariant == PreorderSpec => []PreorderInv
  BY InitPreorder, NextPreorder, PTL DEF PreorderSpec

\* What the shop owes for a cancelled preorder is what it received, to the dong,
\* and an order exists only when the full price came in.
THEOREM PreorderRefunds == PreorderSpec => []RefundOwesWhatWasReceived
<1>1. PreorderInv => RefundOwesWhatWasReceived
  <2> SUFFICES ASSUME PreorderInv, NEW p \in Preorders
               PROVE  /\ preorder[p].status \in {"REFUND_DUE", "SHOP_CANCELLED"} => obligation[p] = Received(p)
                      /\ obligation[p] > 0 => preorder[p].status = "REFUND_DUE"
                      /\ pOrder[p] # "none" => Received(p) = DepositOf[p] + BalanceOf[p]
    BY DEF RefundOwesWhatWasReceived
  <2>1. Received(p) = LegsTotal(p, leg[p])
    BY DEF Received, LegsTotal
  <2> QED
    BY <2>1 DEF PreorderInv, PreorderAgrees, LegsAgree
<1> QED
  BY PreorderInvariant, <1>1, PTL

-----------------------------------------------------------------------------
(* The queue.  Who is served has as many ahead of him as there are free      *)
(* units older than his; who waits before him has fewer, so one of those     *)
(* units is his.                                                            *)

\* A set of naturals has a least one.
LEMMA LeastNumber ==
  ASSUME NEW S, S \subseteq Nat, S # {}
  PROVE  \E n \in S : \A m \in S : n <= m
<1>1. PICK k \in S : TRUE
  OBVIOUS
<1> DEFINE Z == 1 .. k
           F == {1 .. n : n \in {m \in S : m <= k}}
<1>2. F \subseteq SUBSET Z /\ F # {}
  <2>1. \A n \in S : n \in Nat /\ k \in Nat /\ (n <= k => 1 .. n \subseteq 1 .. k)
    BY <1>1
  <2>2. 1 .. k \in F
    BY <1>1, <2>1
  <2> QED
    BY <2>1, <2>2
<1>3. IsFiniteSet(Z)
  BY <1>1, FS_Interval
<1>4. PICK X \in F : \A Y \in F : Y \subseteq X => Y = X
  <2> HIDE DEF F, Z
  <2> QED
    BY <1>2, <1>3, LeastSubset
<1>5. PICK n \in S : n <= k /\ X = 1 .. n
  BY <1>4
<1>6. ASSUME NEW m \in S, m < n PROVE FALSE
  <2>1. 1 .. m \in F /\ 1 .. m \subseteq X
    BY <1>5, <1>6
  <2>2. 1 .. m = 1 .. n
    BY <1>4, <1>5, <2>1
  <2>3. n \in 1 .. m
    BY <1>6, <2>2
  <2> QED
    BY <1>6, <2>3
<1> QED
  BY <1>5, <1>6


LEMMA GreatestNumber ==
  ASSUME NEW S, S \subseteq Nat, S # {}, NEW n \in Nat, \A m \in S : m <= n
  PROVE  \E g \in S : \A m \in S : m <= g
<1> DEFINE bounds == {g \in Nat : \A m \in S : m <= g}
<1>1. PICK g \in bounds : \A h \in bounds : g <= h
  <2>1. bounds \subseteq Nat /\ bounds # {}
    OBVIOUS
  <2> HIDE DEF bounds
  <2> QED
    BY <2>1, LeastNumber
<1>2. ASSUME g \notin S PROVE FALSE
  <2>1. \A m \in S : m \in Nat /\ m < g
    BY <1>1, <1>2
  <2>2. g # 0
    <3>1. PICK m \in S : TRUE
      OBVIOUS
    <3> QED
      BY <2>1, <3>1
  <2>3. g - 1 \in bounds
    BY <1>1, <2>1, <2>2
  <2> QED
    BY <1>1, <2>3
<1> QED
  BY <1>1, <1>2

LEMMA OlderIsFinite ==
  ASSUME NEW s, NEW u
  PROVE  IsFiniteSet(Older(s, u)) /\ Cardinality(Older(s, u)) \in Nat
<1>1. Older(s, u) \subseteq Units
  BY DEF Older, Free
<1> QED
  BY <1>1, PreorderAssumption, FS_Subset, FS_CardinalityType

\* The ages of the free units have no gap.
LEMMA AgesAreFilled ==
  ASSUME NEW s, NEW u \in Free(s), NEW m \in Nat, m <= Cardinality(Older(s, u))
  PROVE  \E v \in Free(s) : Cardinality(Older(s, v)) = m
<1> DEFINE S == {v \in Free(s) : m <= Cardinality(Older(s, v))}
<1>0. Free(s) \subseteq Nat
  BY PreorderAssumption DEF Free
<1>1. PICK v \in S : \A w \in S : v <= w
  <2>1. S \subseteq Nat /\ S # {}
    BY <1>0
  <2> HIDE DEF S
  <2> QED
    BY <2>1, LeastNumber
<1>2. ASSUME Cardinality(Older(s, v)) # m PROVE FALSE
  <2>1. m < Cardinality(Older(s, v)) /\ Cardinality(Older(s, v)) \in Nat
    BY <1>1, <1>2, OlderIsFinite
  <2>2. Older(s, v) # {}
    BY <2>1, FS_EmptySet
  <2>3. v \in Nat /\ v \in Free(s) /\ \A w \in Older(s, v) : w \in Nat /\ w < v /\ w \in Free(s)
    BY <1>0, <1>1 DEF Older
  <2>4. PICK w \in Older(s, v) : \A x \in Older(s, v) : x <= w
    <3>1. Older(s, v) \subseteq Nat /\ \A x \in Older(s, v) : x <= v
      BY <2>3
    <3> QED
      BY <2>2, <2>3, <3>1, GreatestNumber
  <2>5. Older(s, v) = Older(s, w) \cup {w} /\ w \notin Older(s, w)
    <3>1. \A x \in Older(s, v) : x \in Older(s, w) \/ x = w
      BY <2>3, <2>4 DEF Older
    <3>2. \A x \in Older(s, w) : x \in Older(s, v) /\ x # w
      <4>1. \A x \in Free(s) : x \in Nat
        BY <1>0
      <4> QED
        BY <2>3, <4>1 DEF Older
    <3> QED
      BY <3>1, <3>2
  <2>6. Cardinality(Older(s, v)) = Cardinality(Older(s, w)) + 1 /\ Cardinality(Older(s, w)) \in Nat
    BY <2>5, OlderIsFinite, FS_AddElement
  <2>7. w \in S
    BY <2>1, <2>3, <2>6
  <2> QED
    BY <1>1, <2>3, <2>7
<1> QED
  BY <1>1, <1>2

\* Nobody is served while one who paid before him waits.
LEMMA EarlierIsServed ==
  ASSUME NEW s, depositors' \in Seq(Preorders), IsInjective(depositors'),
         NEW p \in Preorders, NEW q \in Waiting(s), IsServed(s, p), PaidBefore(q, p)
  PROVE  IsServed(s, q)
<1>1. PICK u \in Units : IsPair(s, p, u)
  BY DEF IsServed
<1>2. \A x \in Preorders : IsFiniteSet(Ahead(s, x)) /\ Cardinality(Ahead(s, x)) \in Nat
  <2>1. \A x : Ahead(s, x) \subseteq Preorders
    BY DEF Ahead, Waiting
  <2> QED
    BY <2>1, PreorderAssumption, FS_Subset, FS_CardinalityType
<1>3. q \in Preorders /\ DOMAIN depositors' = 1 .. Len(depositors') /\ Len(depositors') \in Nat
  BY DEF Waiting
<1>4. \A a, b \in DOMAIN depositors' : depositors'[a] = depositors'[b] => a = b
  BY DEF IsInjective
<1>5. ~PaidBefore(q, q)
  BY <1>3, <1>4 DEF PaidBefore
<1>6. \A x : PaidBefore(x, q) => PaidBefore(x, p)
  <2> SUFFICES ASSUME NEW x, PaidBefore(x, q) PROVE PaidBefore(x, p)
    OBVIOUS
  <2>1. PICK a, b \in DOMAIN depositors' : a < b /\ depositors'[a] = x /\ depositors'[b] = q
    BY DEF PaidBefore
  <2>2. PICK i, j \in DOMAIN depositors' : i < j /\ depositors'[i] = q /\ depositors'[j] = p
    BY DEF PaidBefore
  <2>3. b = i
    BY <1>4, <2>1, <2>2
  <2>4. a < j
    BY <1>3, <2>1, <2>2, <2>3
  <2> QED
    BY <2>1, <2>2, <2>4 DEF PaidBefore
<1>7. Ahead(s, q) \cup {q} \subseteq Ahead(s, p) /\ q \notin Ahead(s, q)
  BY <1>5, <1>6 DEF Ahead
<1>8. Cardinality(Ahead(s, q)) + 1 <= Cardinality(Ahead(s, p))
  <2>1. Cardinality(Ahead(s, q) \cup {q}) = Cardinality(Ahead(s, q)) + 1
    BY <1>2, <1>3, <1>7, FS_AddElement
  <2>2. Cardinality(Ahead(s, q) \cup {q}) <= Cardinality(Ahead(s, p))
    BY <1>2, <1>7, FS_Subset
  <2> QED
    BY <2>1, <2>2
<1>9. u \in Free(s) /\ Cardinality(Ahead(s, p)) = Cardinality(Older(s, u))
  BY <1>1 DEF IsPair
<1>10. PICK v \in Free(s) : Cardinality(Older(s, v)) = Cardinality(Ahead(s, q))
  <2>1. Cardinality(Ahead(s, q)) \in Nat /\ Cardinality(Ahead(s, q)) <= Cardinality(Older(s, u))
    BY <1>2, <1>3, <1>8, <1>9
  <2> QED
    BY <1>9, <2>1, AgesAreFilled
<1>11. v \in Units /\ IsPair(s, q, v)
  BY <1>10 DEF IsPair, Free
<1> QED
  BY <1>11 DEF IsServed

HasUnit == Holding \cup {"FULLY_PAID"}

ServesInOrder ==
  \A i, j \in 1..Len(depositors') :
    (/\ i < j
     /\ preorder[depositors'[j]].status \notin Holding \cup {"FULLY_PAID"}
     /\ preorder'[depositors'[j]].status \in Holding \cup {"FULLY_PAID"}) =>
    preorder'[depositors'[i]].status # "DEPOSIT_PAID"

LEMMA AllocationIsInOrder ==
  ASSUME NEW s, s.preorder \in [Preorders -> ReservationRow], s.unit \in [Units -> UnitRow],
         s.pOrder \in [Preorders -> POrderStatuses], Becomes(Allocated(s)),
         depositors' \in Seq(Preorders), IsInjective(depositors'),
         \A p \in Preorders : s.preorder[p].status \in HasUnit => preorder[p].status \in HasUnit
  PROVE  ServesInOrder
<1> SUFFICES ASSUME NEW i \in 1..Len(depositors'), NEW j \in 1..Len(depositors'), i < j,
                    preorder[depositors'[j]].status \notin HasUnit,
                    preorder'[depositors'[j]].status \in HasUnit,
                    preorder'[depositors'[i]].status = "DEPOSIT_PAID"
             PROVE  FALSE
  BY DEF ServesInOrder, HasUnit
<1> DEFINE p == depositors'[j]
           q == depositors'[i]
<1>1. p \in Preorders /\ q \in Preorders /\ PaidBefore(q, p)
  <2>1. DOMAIN depositors' = 1..Len(depositors')
    OBVIOUS
  <2> QED
    BY <2>1 DEF PaidBefore
<1> HIDE DEF p, q
<1>2. \A x \in Preorders :
        /\ ~IsServed(s, x) => preorder'[x] = s.preorder[x]
        /\ IsServed(s, x) => preorder'[x].status \in {"FULLY_PAID", "ALLOCATED"}
  BY AllocationServes DEF Becomes
<1>3. preorder[p].status \notin HasUnit /\ preorder'[p].status \in HasUnit
      /\ preorder'[q].status = "DEPOSIT_PAID"
  BY DEF p, q
<1>4. IsServed(s, p)
  BY <1>1, <1>2, <1>3
<1>5. ~IsServed(s, q)
  BY <1>1, <1>2, <1>3
<1>6. q \in Waiting(s)
  BY <1>1, <1>2, <1>3, <1>5 DEF Waiting
<1> QED
  BY <1>1, <1>4, <1>5, <1>6, EarlierIsServed

\* Every transaction keeps to the queue: a reservation gets a unit by the allocation only.
LEMMA OrderStep ==
  ASSUME PreorderInv, PreorderNext
  PROVE  ServesInOrder
<1>0. /\ preorder \in [Preorders -> ReservationRow] /\ unit \in [Units -> UnitRow]
      /\ pOrder \in [Preorders -> POrderStatuses]
      /\ depositors \in Seq(Preorders)
  BY PreorderTyped DEF PreorderInv
<1>1. PreorderInv'
  BY NextPreorder
<1>2. depositors' \in Seq(Preorders) /\ IsInjective(depositors')
  BY <1>1 DEF PreorderInv, PreorderTypeOK
<1>3. ASSUME \A p \in Preorders : preorder'[p].status \in HasUnit => preorder[p].status \in HasUnit
      PROVE  ServesInOrder
  <2>1. \A i \in 1..Len(depositors') : depositors'[i] \in Preorders
    BY <1>2
  <2> QED
    BY <1>3, <2>1 DEF ServesInOrder, HasUnit
<1>4. ASSUME NEW p \in Preorders, DepositSettles(p) PROVE ServesInOrder
  <2> DEFINE pre == [preorder EXCEPT ![p].status = "DEPOSIT_PAID"]
             s == [Now EXCEPT !.preorder = pre]
  <2>1. s.preorder = pre /\ s.unit = unit /\ s.pOrder = pOrder /\ Becomes(Allocated(s))
    BY <1>4 DEF Now, State, DepositSettles
  <2>2. pre \in [Preorders -> ReservationRow]
        /\ \A q \in Preorders : pre[q].status \in HasUnit => preorder[q].status \in HasUnit
    BY <1>0 DEF ReservationRow, Cancellable, HasUnit, Holding
  <2> HIDE DEF s, pre
  <2> QED
    BY <1>0, <1>2, <2>1, <2>2, AllocationIsInOrder
<1>5. CASE ForfeitExpired
  <2> DEFINE freed == {preorder[p].unit : p \in Expired}
             pre == [p \in Preorders |-> IF p \in Expired
                                         THEN [preorder[p] EXCEPT !.status = "DEPOSIT_FORFEITED"]
                                         ELSE preorder[p]]
             stock == [u \in Units |-> IF u \in freed /\ Unbound(unit[u])
                                       THEN [Unstocked EXCEPT !.status = "AVAILABLE"]
                                       ELSE unit[u]]
             s == State(pre, stock, pOrder)
  <2>1. s.preorder = pre /\ s.unit = stock /\ s.pOrder = pOrder /\ Becomes(Allocated(s))
    BY <1>5 DEF State, ForfeitExpired
  <2>2. pre \in [Preorders -> ReservationRow]
        /\ \A q \in Preorders : pre[q].status \in HasUnit => preorder[q].status \in HasUnit
    BY <1>0 DEF ReservationRow, HasUnit, Holding, Expired
  <2>3. stock \in [Units -> UnitRow]
    <3>1. [Unstocked EXCEPT !.status = "AVAILABLE"] \in UnitRow
      BY DEF Unstocked, UnitRow
    <3> QED
      BY <1>0, <3>1
  <2> HIDE DEF s, pre, stock
  <2> QED
    BY <1>0, <1>2, <2>1, <2>2, <2>3, AllocationIsInOrder
<1>6. ASSUME NEW p \in Preorders, ShopCancel(p) PROVE ServesInOrder
  <2> DEFINE u == preorder[p].unit
             status == IF Collected(p) > 0 THEN "REFUND_DUE" ELSE "SHOP_CANCELLED"
             pre == [preorder EXCEPT ![p] = [status |-> status, unit |-> NoUnit, lapsed |-> FALSE]]
             stock == IF u \in Units /\ unit[u].status = "RESERVED"
                      THEN [unit EXCEPT ![u].status = "AVAILABLE", ![u].lapsed = FALSE]
                      ELSE unit
             s == State(pre, stock, pOrder)
  <2>1. s.preorder = pre /\ s.unit = stock /\ s.pOrder = pOrder /\ Becomes(Allocated(s))
    BY <1>6 DEF State, ShopCancel
  <2>2. pre \in [Preorders -> ReservationRow]
        /\ \A q \in Preorders : pre[q].status \in HasUnit => preorder[q].status \in HasUnit
    BY <1>0 DEF ReservationRow, HasUnit, Holding
  <2>3. stock \in [Units -> UnitRow]
    BY <1>0, FreedUnit
  <2> HIDE DEF s, pre, stock
  <2> QED
    BY <1>0, <1>2, <2>1, <2>2, <2>3, AllocationIsInOrder
<1>7. ASSUME NEW p \in Preorders, BalanceSettles(p) PROVE ServesInOrder
  <2>1. preorder[p].status \in Holding
    BY <1>7 DEF BalanceSettles, Settleable, Payable
  <2>2. preorder' = [preorder EXCEPT ![p].status = "FULLY_PAID"]
    BY <1>7 DEF BalanceSettles, Becomes, Finalized, Now, State
  <2> QED
    BY <1>0, <1>3, <2>1, <2>2 DEF HasUnit
<1>8. ASSUME NEW p \in Preorders,
             Reserve(p) \/ FulfilPreorder(p) \/ HoldLapses(p)
               \/ \E l \in Legs : PresentLeg(p, l) \/ LegToReview(p, l)
      PROVE  ServesInOrder
  <2>1. \/ preorder' = preorder
        \/ preorder' = [preorder EXCEPT ![p].status = "WAITING_DEPOSIT"]
        \/ preorder' = [preorder EXCEPT ![p].lapsed = TRUE]
    BY <1>8 DEF Reserve, FulfilPreorder, HoldLapses, PresentLeg, LegToReview
  <2>2. \A q \in Preorders : preorder'[q].status \in HasUnit => preorder[q].status \in HasUnit
    BY <1>0, <2>1 DEF HasUnit, Holding, ReservationRow
  <2> QED
    BY <1>3, <2>2
<1>9. ASSUME NEW u \in Units,
             ReservationLapses(u) \/ SweepUnit(u) \/ Restock(u) \/ ShopperReserves(u) \/ ShopperGets(u)
      PROVE  ServesInOrder
  <2>1. preorder' = preorder
    BY <1>9 DEF ReservationLapses, SweepUnit, Restock, ShopperReserves, ShopperGets
  <2> QED
    BY <1>3, <2>1
<1> QED
  BY <1>4, <1>5, <1>6, <1>7, <1>8, <1>9 DEF PreorderNext

\* First paid, first served, by whatever transaction and however many wait.
THEOREM PreordersInOrder == PreorderSpec => QueueIsServedInOrder
<1>1. PreorderInv /\ [PreorderNext]_preorderVars => [ServesInOrder]_preorderVars
  BY OrderStep
<1> QED
  BY PreorderInvariant, <1>1, PTL DEF PreorderSpec, QueueIsServedInOrder, ServesInOrder
=============================================================================
