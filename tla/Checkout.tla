------------------------------- MODULE Checkout -------------------------------
(***************************************************************************)
(* How a basket becomes a booking: the storefront's checkout page with the  *)
(* cart the server keeps for its browser, the owner's form with its draft,  *)
(* the quotes both work from, and createBooking, whose replay check, plan   *)
(* limit and transaction are three steps.  Requests outlive the page that   *)
(* sent them: an answer may be lost, and the page may try again.            *)
(*                                                                          *)
(* A basket is a number of pieces of one SKU; a price is the version of the *)
(* price list it was computed with.                                         *)
(***************************************************************************)
EXTENDS Integers, FiniteSets, Functions

CONSTANTS
  Pages,      \* checkout pages (tabs) of one browser, which share its cart cookie
  Drafts,     \* the owner's booking drafts
  Requests,   \* bound: booking requests in progress at once
  Quotes,     \* bound: the quotes ever issued
  Carts,      \* bound: the carts ever made
  Baskets,    \* numbers of pieces a customer may want
  Capacity,   \* pieces that can be reserved
  MaxOrders,  \* the plan's monthly limit
  MaxPrice,   \* bound: changes of the price list
  MaxReloads  \* bound: reloads of a page
ASSUME CheckoutAssumption ==
  /\ Pages \cap Drafts = {}
  /\ IsFiniteSet(Requests) /\ IsFiniteSet(Quotes) /\ IsFiniteSet(Carts)
  /\ Baskets \subseteq Nat \ {0} /\ Capacity \in Nat /\ MaxOrders \in Nat
  /\ MaxPrice \in Nat /\ MaxReloads \in Nat

Clients == Pages \cup Drafts

VARIABLES
  cookie,     \* the cart the browser's cookie names, as a set of at most one
  carts,      \* cart -> [status, lines]
  quotes,     \* quote -> [made, cart, items, price]
  bookings,   \* [key, items, quote, cart, price]
  client,     \* page or draft -> [at, visit, items, seen, quote, waits]
  request,    \* request -> [at, key, quote, items, cart, answer]
  price

vars == <<cookie, carts, quotes, bookings, client, request, price>>
shop == <<cookie, carts, quotes, bookings, price>>

NoQuote == [made |-> FALSE, cart |-> {}, items |-> 0, price |-> 0]
NoRequest == [at |-> "idle", key |-> <<>>, quote |-> {}, items |-> 0, cart |-> {}, answer |-> {}]

Init ==
  /\ cookie = {}
  /\ carts = [c \in Carts |-> [status |-> "none", lines |-> 0]]
  /\ quotes = [q \in Quotes |-> NoQuote]
  /\ bookings = {}
  /\ client = [c \in Clients |-> [at |-> "form", visit |-> 0, items |-> 0,
                                  seen |-> {}, quote |-> {}, waits |-> {}]]
  /\ request = [r \in Requests |-> NoRequest]
  /\ price = 0

(* The idempotency key: a page's lives as long as the page, a draft's as    *)
(* long as the draft.                                                       *)
Key(c) == <<c, client[c].visit>>

Taken == SumFunction([b \in bookings |-> b.items])

(* validateSingleItemTx, lockProposalSkus: what is still free.              *)
Available(n) == n + Taken <= Capacity

-----------------------------------------------------------------------------
(* The cart: StorefrontCartService.                                         *)

FindActive == {c \in cookie : carts[c].status = "ACTIVE"}

(* replace, its read: the active cart of the cookie, or none.               *)
ReadCart(c) ==
  /\ client[c].at = "sync"
  /\ client' = [client EXCEPT ![c].at = "write", ![c].seen = FindActive]
  /\ UNCHANGED <<shop, request>>

(* replace, its write: into the cart read, whatever it is by now, or into a *)
(* new one, which the cookie then names.  A page that is done only empties  *)
(* the cart.                                                                *)
WriteCart(c, cart) ==
  /\ client[c].at = "write"
  /\ IF client[c].seen # {}
     THEN /\ cart \in client[c].seen
          /\ carts' = [carts EXCEPT ![cart].lines = client[c].items]
          /\ UNCHANGED cookie
     ELSE /\ carts[cart].status = "none"
          /\ carts' = [carts EXCEPT ![cart] = [status |-> "ACTIVE", lines |-> client[c].items]]
          /\ cookie' = {cart}
  /\ client' = [client EXCEPT ![c].at = IF client[c].items = 0 THEN "done" ELSE "quote",
                              ![c].seen = {}]
  /\ UNCHANGED <<quotes, bookings, request, price>>

(* Thirty days pass without a change of the cart.                           *)
CartExpires(cart) ==
  /\ carts[cart].status = "ACTIVE"
  /\ carts' = [carts EXCEPT ![cart].status = "EXPIRED"]
  /\ UNCHANGED <<cookie, quotes, bookings, client, request, price>>

-----------------------------------------------------------------------------
(* Quotes: validateCart with issueCheckoutQuote, createManualQuote.         *)

(* requireMatching: the server's cart is what the page shows.               *)
Matching(c) == \E cart \in FindActive : carts[cart].lines = client[c].items

Issue(c, q, cart) ==
  /\ ~quotes[q].made
  /\ quotes' = [quotes EXCEPT ![q] =
       [made |-> TRUE, cart |-> cart, items |-> client[c].items, price |-> price]]
  /\ client' = [client EXCEPT ![c].at = "submit", ![c].quote = {q}]
  /\ UNCHANGED <<cookie, carts, bookings, request, price>>

QuoteCart(c, q) ==
  /\ client[c].at = "quote" /\ c \in Pages
  /\ Matching(c) /\ Available(client[c].items)
  /\ Issue(c, q, FindActive)

QuoteDraft(c, q) ==
  /\ client[c].at = "quote" /\ c \in Drafts
  /\ Available(client[c].items)
  /\ Issue(c, q, {})

(* Where a client stands at next; a form begun again asks anew.             *)
Turn(c, next) ==
  client' = [client EXCEPT ![c] =
    [client[c] EXCEPT !.at = next, !.waits = {},
                      !.items = IF next = "submit" THEN @ ELSE 0,
                      !.quote = IF next = "submit" THEN @ ELSE {}]]

(* No quote: the cart changed, the pieces are not free, or the call fails.  *)
QuoteRefused(c) ==
  /\ client[c].at = "quote"
  /\ Turn(c, "form")
  /\ UNCHANGED <<shop, request>>

PriceChanges ==
  /\ price < MaxPrice
  /\ price' = price + 1
  /\ UNCHANGED <<cookie, carts, quotes, bookings, client, request>>

-----------------------------------------------------------------------------
(* The clients: the checkout page's handleSubmit, the form's mutations.     *)

(* A page first brings the server's cart up to date; each try of a page     *)
(* starts here, and so asks for a quote of its own.                         *)
Start(c, n) ==
  /\ client[c].at = "form"
  /\ client' = [client EXCEPT ![c].at = IF c \in Pages THEN "sync" ELSE "quote",
                              ![c].items = n]
  /\ UNCHANGED <<shop, request>>

Send(c, r) ==
  /\ client[c].at = "submit"
  /\ request[r].at = "idle"
  /\ request' = [request EXCEPT ![r] =
       [at |-> "key", key |-> Key(c), quote |-> client[c].quote, items |-> client[c].items,
        cart |-> IF c \in Pages THEN cookie ELSE {}, answer |-> {}]]
  /\ client' = [client EXCEPT ![c].at = "waiting", ![c].waits = {r}]
  /\ UNCHANGED shop

(* After an error a page starts over; the form keeps its quote, unless the  *)
(* error says that it no longer holds.                                      *)
AfterError(c) == IF c \in Pages THEN {"form"} ELSE {"form", "submit"}

(* The answer comes.  A page told of its booking empties its cart.          *)
Receive(c, r) ==
  /\ request[r].at = "answered" /\ r \in client[c].waits
  /\ \E next \in IF request[r].answer = {} THEN AfterError(c)
                 ELSE IF c \in Pages THEN {"sync"} ELSE {"done"} : Turn(c, next)
  /\ request' = [request EXCEPT ![r] = NoRequest]
  /\ UNCHANGED shop

(* The client stops waiting; the request goes on.  (An answer that is lost  *)
(* is one nobody waited for.)                                               *)
GiveUp(c) ==
  /\ client[c].at = "waiting"
  /\ \A r \in client[c].waits : request[r].at # "answered"
  /\ \E next \in AfterError(c) : Turn(c, next)
  /\ UNCHANGED <<shop, request>>

(* A reloaded page takes a new key with its next booking; a draft is        *)
(* restored with its key, but without its quote.                            *)
NextVisit(c) == IF c \in Pages THEN client[c].visit + 1 ELSE client[c].visit

Reload(c) ==
  /\ client[c].at \notin {"form", "done"}
  /\ \A r \in client[c].waits : request[r].at # "answered"
  /\ c \in Pages => client[c].visit < MaxReloads
  /\ client' = [client EXCEPT ![c] = [at |-> "form", items |-> 0, seen |-> {}, quote |-> {},
                              waits |-> {}, visit |-> NextVisit(c)]]
  /\ UNCHANGED <<shop, request>>

-----------------------------------------------------------------------------
(* createBooking.                                                           *)

WithKey(r) == {b \in bookings : b.key = request[r].key}

(* Mutant: a booking found under the key is the answer, whatever it was for. *)
SameKeyOnly(r, b) == b.key = request[r].key
(* assertMatchingBookingRequest: the fingerprint covers quote and items.    *)
SameRequest(r, b) == b.quote = request[r].quote /\ b.items = request[r].items

(* The answer, if somebody still waits for it.                              *)
Answer(r, found) ==
  request' = [request EXCEPT ![r] =
    IF \E c \in Clients : r \in client[c].waits
    THEN [@ EXCEPT !.at = "answered", !.cart = {}, !.answer = found] ELSE NoRequest]

(* What a request is told whose key has made a booking.                     *)
Replay(r) == Answer(r, {b \in WithKey(r) : SameRequest(r, b)})

CheckKey(r) ==
  /\ request[r].at = "key"
  /\ IF WithKey(r) # {} THEN Replay(r) ELSE request' = [request EXCEPT ![r].at = "limit"]
  /\ UNCHANGED <<shop, client>>

(* Mutant: a plan that is used up allows one more.                          *)
WithinPlanOrFull == Cardinality(bookings) <= MaxOrders
WithinPlan == Cardinality(bookings) < MaxOrders

(* enforcePlanLimit, before the transaction.                                *)
CheckLimit(r) ==
  /\ request[r].at = "limit"
  /\ IF WithinPlan THEN request' = [request EXCEPT ![r].at = "book"] ELSE Answer(r, {})
  /\ UNCHANGED <<shop, client>>

(* The locked cart is active and unchanged.                                 *)
CartHolds(r) ==
  \A cart \in request[r].cart :
    carts[cart].status = "ACTIVE" /\ carts[cart].lines = request[r].items

Used(q) == \E b \in bookings : q \in b.quote

(* Mutant: the price is the one of now.                                     *)
QuoteUnused(r, q) ==
  /\ quotes[q].made /\ ~Used(q)
  /\ quotes[q].cart = request[r].cart
  /\ quotes[q].items = request[r].items
(* The locked quote is of this cart and basket and unused, and the total    *)
(* computed again is its total.                                             *)
QuoteHolds(r, q) ==
  /\ quotes[q].made /\ ~Used(q)
  /\ quotes[q].cart = request[r].cart
  /\ quotes[q].items = request[r].items
  /\ quotes[q].price = price

(* Mutant: what was free when the quote was made is taken to be free still. *)
FreeAsQuoted(r) == \E q \in request[r].quote : quotes[q].items = request[r].items
StillFree(r) == Available(request[r].items)

(* Mutant: no unique index on the key.                                      *)
KeyNeverTaken(r) == TRUE
(* The unique index on the key.                                             *)
KeyFree(r) == WithKey(r) = {}

(* The serializable transaction; the booking starts with its hold.          *)
Book(r, q) ==
  LET booking == [key |-> request[r].key, items |-> request[r].items, quote |-> {q},
                  cart |-> request[r].cart, price |-> price]
  IN
  /\ request[r].at = "book" /\ q \in request[r].quote
  /\ CartHolds(r) /\ QuoteHolds(r, q) /\ StillFree(r) /\ KeyFree(r)
  /\ bookings' = bookings \cup {booking}
  /\ carts' = [c \in Carts |->
       IF c \in request[r].cart THEN [carts[c] EXCEPT !.status = "CHECKED_OUT"] ELSE carts[c]]
  /\ Answer(r, {booking})
  /\ UNCHANGED <<cookie, quotes, client, price>>

(* The insert meets a booking made under the key since the check.  A page's *)
(* second request fails before it, at the cart the first one checked out.   *)
BookMeetsTwin(r) ==
  /\ request[r].at = "book"
  /\ ~KeyFree(r) /\ CartHolds(r)
  /\ Replay(r)
  /\ UNCHANGED <<shop, client>>

(* The transaction finds its quote older than ten minutes, its cart or its  *)
(* quote stale or too little free, takes a booking number another one took, *)
(* or is aborted three times.                                               *)
BookRefused(r) ==
  /\ request[r].at = "book"
  /\ Answer(r, {})
  /\ UNCHANGED <<shop, client>>

-----------------------------------------------------------------------------
Next ==
  \/ \E c \in Clients :
       \/ \E n \in Baskets : Start(c, n)
       \/ ReadCart(c) \/ QuoteRefused(c) \/ GiveUp(c) \/ Reload(c)
       \/ \E cart \in Carts : WriteCart(c, cart)
       \/ \E q \in Quotes : QuoteCart(c, q) \/ QuoteDraft(c, q)
       \/ \E r \in Requests : Send(c, r) \/ Receive(c, r)
  \/ \E r \in Requests :
       \/ CheckKey(r) \/ CheckLimit(r) \/ BookMeetsTwin(r) \/ BookRefused(r)
       \/ \E q \in Quotes : Book(r, q)
  \/ \E cart \in Carts : CartExpires(cart)
  \/ PriceChanges

Spec == Init /\ [][Next]_vars

-----------------------------------------------------------------------------
(* Properties.                                                              *)

AtMostOne(S) == {{}} \cup {{x} : x \in S}
CartRows == [status : {"none", "ACTIVE", "EXPIRED", "CHECKED_OUT"}, lines : Baskets \cup {0}]
QuoteRows == [made : BOOLEAN, cart : SUBSET Carts, items : Baskets \cup {0}, price : 0..MaxPrice]
BookingRows == [key : Clients \X Nat, items : Baskets, quote : SUBSET Quotes,
                cart : SUBSET Carts, price : 0..MaxPrice]
ClientStates ==
  [at : {"form", "sync", "write", "quote", "submit", "waiting", "done"}, visit : Nat,
   items : Baskets \cup {0}, seen : SUBSET Carts, quote : AtMostOne(Quotes),
   waits : SUBSET Requests]
RequestStates ==
  [at : {"idle", "key", "limit", "book", "answered"}, key : (Clients \X Nat) \cup {<<>>},
   quote : AtMostOne(Quotes), items : Baskets \cup {0}, cart : SUBSET Carts,
   answer : SUBSET BookingRows]

(* The type invariant: what is submitted is a basket, not an empty cart,     *)
(* a client waits only while it says so, and an answer names bookings there  *)
(* are.                                                                     *)
TypeOK ==
  /\ cookie \subseteq Carts
  /\ carts \in [Carts -> CartRows]
  /\ quotes \in [Quotes -> QuoteRows]
  /\ bookings \subseteq BookingRows
  /\ client \in [Clients -> ClientStates]
  /\ request \in [Requests -> RequestStates]
  /\ price \in 0..MaxPrice
  /\ \A c \in Clients :
       /\ client[c].at \in {"quote", "submit", "waiting"} => client[c].items \in Baskets
       /\ client[c].waits # {} => client[c].at = "waiting"
  /\ \A r \in Requests : /\ request[r].at \in {"key", "limit", "book"} =>
                              request[r].items \in Baskets /\ request[r].key \in Clients \X Nat
                         /\ request[r].answer \subseteq bookings

(* A booking is what its customer was quoted: the basket and the price of a *)
(* quote made for the cart it took, however prices, baskets and carts       *)
(* changed between the quote and the booking.                               *)
BookedAsQuoted ==
  \A b \in bookings : \E q \in b.quote :
    quotes[q].items = b.items /\ quotes[q].price = b.price /\ quotes[q].cart = b.cart

(* A key, a quote and a cart make one booking each, though a page or form   *)
(* submits again while its first request still runs.                        *)
BookedOnce ==
  \A b1, b2 \in bookings :
    \/ b1 = b2
    \/ b1.key # b2.key /\ b1.quote \cap b2.quote = {} /\ b1.cart \cap b2.cart = {}

(* The bookings never need more than there is, however many quotes were     *)
(* given out on the same pieces.                                            *)
NeverOversold == Taken <= Capacity

(* Who is told of a booking is told of the one it asked for.                *)
AnswersMatch ==
  \A r \in Requests : \A b \in request[r].answer :
    b.key = request[r].key /\ b.quote = request[r].quote /\ b.items = request[r].items

(* The plan's limit is checked before the transaction, so requests that     *)
(* pass it together exceed it together - but the bookings there are and     *)
(* those about to be made never by more than the requests in progress       *)
(* beside the one the limit still had room for.                             *)
AboutToBook == {r \in Requests : request[r].at = "book"}
LimitOverrunBounded ==
  Cardinality(bookings) + Cardinality(AboutToBook)
    <= IF MaxOrders = 0 THEN 0 ELSE MaxOrders + Cardinality(Requests) - 1

(* What docs/product-rental-domain-completeness-matrix.md says of booking   *)
(* creation: a repeated request is answered with the booking it made - it   *)
(* is not refused once that booking exists.                                 *)
RetryGetsBooking ==
  [][\A r \in Requests :
       request[r].at # "answered" /\ request'[r].at = "answered" /\ request'[r].answer = {}
         => \A b \in WithKey(r) : ~SameRequest(r, b)]_vars

(* The plan's monthly limit.                                                *)
WithinMonthlyLimit == Cardinality(bookings) <= MaxOrders

=============================================================================
