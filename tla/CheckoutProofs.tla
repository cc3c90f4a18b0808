---------------------------- MODULE CheckoutProofs ----------------------------
(***************************************************************************)
(* What checkout keeps for any number of pages, drafts, requests, quotes    *)
(* and carts.  A booking is as quoted because quotes never change once made  *)
(* and the transaction looks at them again; it is made once because its key  *)
(* and its quote are used up by it and its cart is checked out for good.     *)
(***************************************************************************)
EXTENDS Checkout, SumTheorems

-----------------------------------------------------------------------------
(* Types.                                                                    *)

LEMMA InitType == Init => TypeOK
<1> SUFFICES ASSUME Init
             PROVE  TypeOK
  OBVIOUS
<1> USE DEF Init
<1> {} \in AtMostOne(Quotes)
  BY DEF AtMostOne
<1>1. cookie \subseteq Carts /\ bookings \subseteq BookingRows
  OBVIOUS
<1>2. carts \in [Carts -> CartRows]
  BY DEF CartRows
<1>3. MaxPrice \in Nat
  BY CheckoutAssumption
<1>4. quotes \in [Quotes -> QuoteRows]
  <2>1. NoQuote \in QuoteRows
    BY <1>3 DEF QuoteRows, NoQuote
  <2>2. QED
    BY <2>1
<1>5. client \in [Clients -> ClientStates]
  BY DEF ClientStates
<1>6. request \in [Requests -> RequestStates]
  <2>1. NoRequest \in RequestStates
    BY DEF RequestStates, NoRequest
  <2>2. QED
    BY <2>1
<1>7. price \in 0..MaxPrice
  BY <1>3
<1>8. \A r \in Requests : request[r].at = "idle" /\ request[r].answer = {}
  BY DEF NoRequest
<1>9. QED
  BY <1>1, <1>2, <1>4, <1>5, <1>6, <1>7, <1>8 DEF TypeOK

(* What answering a request leaves of it.                                    *)
LEMMA Answered ==
  ASSUME TypeOK, NEW r \in Requests, NEW found \in SUBSET BookingRows, Answer(r, found)
  PROVE  /\ request' \in [Requests -> RequestStates]
         /\ \A s \in Requests : s # r => request'[s] = request[s]
         /\ \/ request'[r] = NoRequest
            \/ request'[r] = [request[r] EXCEPT !.at = "answered", !.cart = {}, !.answer = found]
<1> request \in [Requests -> RequestStates]
  BY DEF TypeOK
<1>1. NoRequest \in RequestStates
  BY DEF NoRequest, RequestStates, AtMostOne
<1>2. [request[r] EXCEPT !.at = "answered", !.cart = {}, !.answer = found] \in RequestStates
  BY DEF RequestStates
<1>3. CASE \E c \in Clients : r \in client[c].waits
  <2>1. request' = [request EXCEPT ![r] =
          [request[r] EXCEPT !.at = "answered", !.cart = {}, !.answer = found]]
    BY <1>3 DEF Answer
  <2>2. QED
    BY <2>1, <1>2
<1>4. CASE ~ \E c \in Clients : r \in client[c].waits
  <2>1. request' = [request EXCEPT ![r] = NoRequest]
    BY <1>4 DEF Answer
  <2>2. QED
    BY <2>1, <1>1
<1>5. QED
  BY <1>3, <1>4

(* One request is set to a state of its own, or answered.                    *)
LEMMA RequestsType ==
  ASSUME TypeOK, [Next]_vars
  PROVE  request' \in [Requests -> RequestStates]
<1> USE DEF TypeOK
<1>1. NoRequest \in RequestStates
  BY DEF NoRequest, RequestStates, AtMostOne
<1>2. ASSUME NEW c \in Clients, NEW r \in Requests, Send(c, r)
      PROVE  request' \in [Requests -> RequestStates]
  <2>1. Key(c) \in Clients \X Nat
    BY DEF Key, ClientStates
  <2>2. [at |-> "key", key |-> Key(c), quote |-> client[c].quote, items |-> client[c].items,
         cart |-> IF c \in Pages THEN cookie ELSE {}, answer |-> {}] \in RequestStates
    BY <2>1 DEF ClientStates, RequestStates
  <2>3. QED
    BY <1>2, <2>2 DEF Send
<1>3. ASSUME NEW c \in Clients, NEW r \in Requests, Receive(c, r)
      PROVE  request' \in [Requests -> RequestStates]
  BY <1>1, <1>3 DEF Receive
<1>4. ASSUME NEW r \in Requests, NEW at \in {"limit", "book"},
             request' = [request EXCEPT ![r].at = at]
      PROVE  request' \in [Requests -> RequestStates]
  <2>1. [request[r] EXCEPT !.at = at] \in RequestStates
    BY DEF RequestStates
  <2>2. QED
    BY <1>4, <2>1
<1>5. ASSUME NEW r \in Requests, NEW found \in SUBSET BookingRows, Answer(r, found)
      PROVE  request' \in [Requests -> RequestStates]
  BY <1>5, Answered
<1>6. ASSUME NEW r \in Requests, CheckKey(r)
      PROVE  request' \in [Requests -> RequestStates]
  <2>1. {b \in WithKey(r) : SameRequest(r, b)} \in SUBSET BookingRows
    BY DEF WithKey
  <2>2. QED
    BY <1>4, <1>5, <1>6, <2>1 DEF CheckKey, Replay
<1>7. ASSUME NEW r \in Requests, CheckLimit(r)
      PROVE  request' \in [Requests -> RequestStates]
  BY <1>4, <1>5, <1>7 DEF CheckLimit
<1>8. ASSUME NEW r \in Requests, BookMeetsTwin(r)
      PROVE  request' \in [Requests -> RequestStates]
  <2>1. {b \in WithKey(r) : SameRequest(r, b)} \in SUBSET BookingRows
    BY DEF WithKey
  <2>2. QED
    BY <1>5, <1>8, <2>1 DEF BookMeetsTwin, Replay
<1>9. ASSUME NEW r \in Requests, BookRefused(r)
      PROVE  request' \in [Requests -> RequestStates]
  BY <1>5, <1>9 DEF BookRefused
<1>10. ASSUME NEW r \in Requests, NEW q \in Quotes, Book(r, q)
       PROVE  request' \in [Requests -> RequestStates]
  <2>1. [key |-> request[r].key, items |-> request[r].items, quote |-> {q},
         cart |-> request[r].cart, price |-> price] \in BookingRows
    BY <1>10 DEF Book, BookingRows, RequestStates
  <2>2. QED
    BY <1>5, <1>10, <2>1 DEF Book
<1>11. QED
  BY <1>2, <1>3, <1>6, <1>7, <1>8, <1>9, <1>10
     DEF Next, vars, shop, Start, ReadCart, QuoteRefused, GiveUp, Reload, WriteCart,
         QuoteCart, QuoteDraft, Issue, CartExpires, PriceChanges


(* The records a client's step may leave.                                    *)
Places == {"form", "sync", "write", "quote", "submit", "waiting", "done"}

LEMMA ClientUpdates ==
  ASSUME NEW s \in ClientStates, NEW at \in Places
  PROVE  /\ \A n \in Baskets : [s EXCEPT !.at = at, !.items = n] \in ClientStates
         /\ \A cs \in SUBSET Carts : [s EXCEPT !.at = at, !.seen = cs] \in ClientStates
         /\ \A qs \in AtMostOne(Quotes) : [s EXCEPT !.at = at, !.quote = qs] \in ClientStates
         /\ \A rs \in SUBSET Requests : [s EXCEPT !.at = at, !.waits = rs] \in ClientStates
         /\ [s EXCEPT !.at = at, !.waits = {}, !.items = IF at = "submit" THEN @ ELSE 0,
                      !.quote = IF at = "submit" THEN @ ELSE {}] \in ClientStates
<1> USE DEF ClientStates, Places
<1>1. \A n \in Baskets : [s EXCEPT !.at = at, !.items = n] \in ClientStates
  OBVIOUS
<1>2. \A cs \in SUBSET Carts : [s EXCEPT !.at = at, !.seen = cs] \in ClientStates
  OBVIOUS
<1> {} \in AtMostOne(Quotes)
  BY DEF AtMostOne
<1>3. \A qs \in AtMostOne(Quotes) : [s EXCEPT !.at = at, !.quote = qs] \in ClientStates
  OBVIOUS
<1>4. \A rs \in SUBSET Requests : [s EXCEPT !.at = at, !.waits = rs] \in ClientStates
  OBVIOUS
<1>5. CASE at = "submit"
  <2>1. [s EXCEPT !.at = at, !.waits = {}] \in ClientStates
    OBVIOUS
  <2>2. QED
    BY <1>1, <1>2, <1>3, <1>4, <1>5
<1>6. CASE at # "submit"
  <2>1. [s EXCEPT !.at = at, !.waits = {}, !.items = 0, !.quote = {}] \in ClientStates
    OBVIOUS
  <2>2. QED
    BY <1>1, <1>2, <1>3, <1>4, <1>6, <2>1
<1>7. QED
  BY <1>5, <1>6

(* Where a client goes next, and with what: what is submitted is a basket.   *)
LEMMA ClientsType ==
  ASSUME TypeOK, [Next]_vars
  PROVE  /\ client' \in [Clients -> ClientStates]
         /\ \A c \in Clients :
              /\ client'[c].at \in {"quote", "submit", "waiting"} => client'[c].items \in Baskets
              /\ client'[c].waits # {} => client'[c].at = "waiting"
<1> DEFINE Fits(s) == /\ s \in ClientStates
                      /\ s.at \in {"quote", "submit", "waiting"} => s.items \in Baskets
                      /\ s.waits # {} => s.at = "waiting"
<1>1. client \in [Clients -> ClientStates] /\ \A c \in Clients : Fits(client[c])
  BY DEF TypeOK
<1>2. SUFFICES client' \in [Clients -> ClientStates] /\ \A c \in Clients : Fits(client'[c])
  OBVIOUS
<1>3. ASSUME NEW c \in Clients, NEW s, Fits(s), client' = [client EXCEPT ![c] = s]
      PROVE  client' \in [Clients -> ClientStates] /\ \A d \in Clients : Fits(client'[d])
  BY <1>1, <1>3
<1>4. ASSUME NEW c \in Clients, NEW next \in {"form", "sync", "submit", "done"}, Turn(c, next),
             next = "submit" => client[c].items \in Baskets
      PROVE  client' \in [Clients -> ClientStates] /\ \A d \in Clients : Fits(client'[d])
  <2> DEFINE s == [client[c] EXCEPT !.at = next, !.waits = {},
                                    !.items = IF next = "submit" THEN @ ELSE 0,
                                    !.quote = IF next = "submit" THEN @ ELSE {}]
  <2>1. s \in ClientStates
    BY <1>1, ClientUpdates DEF Places
  <2>2. s.at = next /\ s.waits = {} /\ (next = "submit" => s.items = client[c].items)
    BY <1>1 DEF ClientStates
  <2>3. client' = [client EXCEPT ![c] = s]
    BY <1>4 DEF Turn
  <2>4. Fits(s)
    BY <1>4, <2>1, <2>2
  <2> HIDE DEF s
  <2>5. QED
    BY <1>3, <2>3, <2>4
<1>5. ASSUME NEW c \in Clients, NEW n \in Baskets, Start(c, n)
      PROVE  client' \in [Clients -> ClientStates] /\ \A d \in Clients : Fits(client'[d])
  <2> DEFINE at == IF c \in Pages THEN "sync" ELSE "quote"
             s == [client[c] EXCEPT !.at = at, !.items = n]
  <2>1. s \in ClientStates
    BY <1>1, ClientUpdates DEF Places
  <2>2. s.items = n /\ s.waits = {}
    BY <1>1, <1>5 DEF ClientStates, Start
  <2>3. client' = [client EXCEPT ![c] = s]
    BY <1>5 DEF Start
  <2> HIDE DEF s
  <2>4. QED
    BY <1>3, <2>1, <2>2, <2>3
<1>6. ASSUME NEW c \in Clients, ReadCart(c)
      PROVE  client' \in [Clients -> ClientStates] /\ \A d \in Clients : Fits(client'[d])
  <2> DEFINE s == [client[c] EXCEPT !.at = "write", !.seen = FindActive]
  <2>1. s \in ClientStates
    <3>1. FindActive \in SUBSET Carts
      BY DEF FindActive, TypeOK
    <3>2. QED
      BY <1>1, <3>1, ClientUpdates DEF Places
  <2>2. s.at = "write" /\ s.waits = {}
    BY <1>1, <1>6 DEF ClientStates, ReadCart
  <2>3. client' = [client EXCEPT ![c] = s]
    BY <1>6 DEF ReadCart
  <2> HIDE DEF s
  <2>4. QED
    BY <1>3, <2>1, <2>2, <2>3
<1>7. ASSUME NEW c \in Clients, NEW cart \in Carts, WriteCart(c, cart)
      PROVE  client' \in [Clients -> ClientStates] /\ \A d \in Clients : Fits(client'[d])
  <2> DEFINE at == IF client[c].items = 0 THEN "done" ELSE "quote"
             s == [client[c] EXCEPT !.at = at, !.seen = {}]
  <2>1. s \in ClientStates
    BY <1>1, ClientUpdates DEF Places
  <2>2. /\ s.at = at /\ s.items = client[c].items /\ s.waits = {}
        /\ client[c].items \in Baskets \cup {0}
    BY <1>1, <1>7 DEF ClientStates, WriteCart
  <2>3. client' = [client EXCEPT ![c] = s]
    BY <1>7 DEF WriteCart
  <2>4. Fits(s)
    BY <2>1, <2>2
  <2> HIDE DEF s
  <2>5. QED
    BY <1>3, <2>3, <2>4
<1>8. ASSUME NEW c \in Clients, NEW q \in Quotes, QuoteCart(c, q) \/ QuoteDraft(c, q)
      PROVE  client' \in [Clients -> ClientStates] /\ \A d \in Clients : Fits(client'[d])
  <2> DEFINE s == [client[c] EXCEPT !.at = "submit", !.quote = {q}]
  <2>1. s \in ClientStates
    <3>1. {q} \in AtMostOne(Quotes) /\ client[c] \in ClientStates /\ "submit" \in Places
      BY <1>1 DEF Places, AtMostOne
    <3>2. QED
      BY <3>1, ClientUpdates
  <2>2. s.items = client[c].items /\ client[c].items \in Baskets /\ s.waits = {}
    BY <1>1, <1>8 DEF ClientStates, QuoteCart, QuoteDraft
  <2>3. client' = [client EXCEPT ![c] = s]
    BY <1>8 DEF QuoteCart, QuoteDraft, Issue
  <2> HIDE DEF s
  <2>4. QED
    BY <1>3, <2>1, <2>2, <2>3
<1>9. ASSUME NEW c \in Clients, NEW r \in Requests, Send(c, r)
      PROVE  client' \in [Clients -> ClientStates] /\ \A d \in Clients : Fits(client'[d])
  <2> DEFINE s == [client[c] EXCEPT !.at = "waiting", !.waits = {r}]
  <2>1. s \in ClientStates
    <3>1. {r} \in SUBSET Requests /\ client[c] \in ClientStates /\ "waiting" \in Places
      BY <1>1 DEF Places
    <3>2. QED
      BY <3>1, ClientUpdates
  <2>2. s.at = "waiting" /\ s.items = client[c].items /\ client[c].items \in Baskets
    BY <1>1, <1>9 DEF ClientStates, Send
  <2>3. client' = [client EXCEPT ![c] = s]
    BY <1>9 DEF Send
  <2> HIDE DEF s
  <2>4. QED
    BY <1>3, <2>1, <2>2, <2>3
<1>10. ASSUME NEW c \in Clients, Reload(c)
       PROVE  client' \in [Clients -> ClientStates] /\ \A d \in Clients : Fits(client'[d])
  <2> DEFINE s == [at |-> "form", items |-> 0, seen |-> {}, quote |-> {}, waits |-> {},
                   visit |-> NextVisit(c)]
  <2>1. client[c].visit \in Nat
    BY <1>1 DEF ClientStates
  <2>2. s \in ClientStates
    BY <2>1 DEF ClientStates, NextVisit, AtMostOne
  <2>3. client' = [client EXCEPT ![c] = s]
    BY <1>10 DEF Reload
  <2>4. s.at = "form" /\ s.waits = {}
    OBVIOUS
  <2> HIDE DEF s
  <2>5. QED
    BY <1>3, <2>2, <2>3, <2>4
<1>11. ASSUME NEW c \in Clients, QuoteRefused(c)
       PROVE  client' \in [Clients -> ClientStates] /\ \A d \in Clients : Fits(client'[d])
  BY <1>4, <1>11 DEF QuoteRefused
<1>12. ASSUME NEW c \in Clients, NEW r \in Requests, Receive(c, r)
       PROVE  client' \in [Clients -> ClientStates] /\ \A d \in Clients : Fits(client'[d])
  <2>1. client[c].items \in Baskets
    BY <1>1, <1>12 DEF Receive
  <2>2. PICK next \in {"form", "sync", "submit", "done"} : Turn(c, next)
    BY <1>12 DEF Receive, AfterError
  <2>3. QED
    BY <1>4, <2>1, <2>2
<1>13. ASSUME NEW c \in Clients, GiveUp(c)
       PROVE  client' \in [Clients -> ClientStates] /\ \A d \in Clients : Fits(client'[d])
  <2>1. client[c].items \in Baskets
    BY <1>1, <1>13 DEF GiveUp
  <2>2. PICK next \in {"form", "sync", "submit", "done"} : Turn(c, next)
    BY <1>13 DEF GiveUp, AfterError
  <2>3. QED
    BY <1>4, <2>1, <2>2
<1>14. CASE client' = client
  BY <1>1, <1>14
<1> HIDE DEF Fits
<1>15. QED
  BY <1>5, <1>6, <1>7, <1>8, <1>9, <1>10, <1>11, <1>12, <1>13, <1>14
     DEF Next, vars, CheckKey, CheckLimit, BookMeetsTwin, BookRefused, Book,
         CartExpires, PriceChanges

LEMMA CartsType ==
  ASSUME TypeOK, [Next]_vars
  PROVE  cookie' \subseteq Carts /\ carts' \in [Carts -> CartRows]
<1> cookie \subseteq Carts /\ carts \in [Carts -> CartRows]
  BY DEF TypeOK
<1>1. ASSUME NEW c \in Clients, NEW cart \in Carts, WriteCart(c, cart)
      PROVE  cookie' \subseteq Carts /\ carts' \in [Carts -> CartRows]
  <2>1. client[c].items \in Baskets \cup {0}
    BY DEF TypeOK, ClientStates
  <2>2. [carts[cart] EXCEPT !.lines = client[c].items] \in CartRows
    BY <2>1 DEF CartRows
  <2>3. [status |-> "ACTIVE", lines |-> client[c].items] \in CartRows
    BY <2>1 DEF CartRows
  <2>4. QED
    BY <1>1, <2>2, <2>3 DEF WriteCart
<1>2. ASSUME NEW cart \in Carts, CartExpires(cart)
      PROVE  cookie' \subseteq Carts /\ carts' \in [Carts -> CartRows]
  <2>1. [carts[cart] EXCEPT !.status = "EXPIRED"] \in CartRows
    BY DEF CartRows
  <2>2. QED
    BY <1>2, <2>1 DEF CartExpires
<1>3. ASSUME NEW r \in Requests, NEW q \in Quotes, Book(r, q)
      PROVE  cookie' \subseteq Carts /\ carts' \in [Carts -> CartRows]
  <2>1. \A c \in Carts : [carts[c] EXCEPT !.status = "CHECKED_OUT"] \in CartRows
    BY DEF CartRows
  <2>2. QED
    BY <1>3, <2>1 DEF Book
<1>4. CASE UNCHANGED <<cookie, carts>>
  BY <1>4
<1>5. QED
  BY <1>1, <1>2, <1>3, <1>4
     DEF Next, vars, shop, Start, ReadCart, QuoteRefused, GiveUp, Reload, QuoteCart, QuoteDraft,
         Issue, Send, Receive, CheckKey, CheckLimit, BookMeetsTwin, BookRefused, PriceChanges

LEMMA QuotesType ==
  ASSUME TypeOK, [Next]_vars
  PROVE  quotes' \in [Quotes -> QuoteRows] /\ price' \in 0..MaxPrice
<1> quotes \in [Quotes -> QuoteRows] /\ price \in 0..MaxPrice
  BY DEF TypeOK
<1>1. ASSUME NEW c \in Clients, NEW q \in Quotes, QuoteCart(c, q) \/ QuoteDraft(c, q)
      PROVE  quotes' \in [Quotes -> QuoteRows] /\ price' \in 0..MaxPrice
  <2>1. client[c].items \in Baskets \cup {0}
    BY DEF TypeOK, ClientStates
  <2>2. FindActive \subseteq Carts
    BY DEF TypeOK, FindActive
  <2>3. \A cs \in SUBSET Carts :
          [made |-> TRUE, cart |-> cs, items |-> client[c].items, price |-> price] \in QuoteRows
    BY <2>1 DEF QuoteRows
  <2>4. QED
    BY <1>1, <2>2, <2>3 DEF QuoteCart, QuoteDraft, Issue
<1>2. CASE PriceChanges
  BY <1>2, CheckoutAssumption DEF PriceChanges
<1>3. CASE UNCHANGED <<quotes, price>>
  BY <1>3
<1>4. QED
  BY <1>1, <1>2, <1>3
     DEF Next, vars, shop, Start, ReadCart, WriteCart, QuoteRefused, GiveUp, Reload, Send, Receive,
         CheckKey, CheckLimit, Book, BookMeetsTwin, BookRefused, CartExpires

(* A step makes no booking, or the one the transaction inserts.              *)
Inserted(r, q) == [key |-> request[r].key, items |-> request[r].items, quote |-> {q},
                   cart |-> request[r].cart, price |-> price]

LEMMA BookingsGrow ==
  ASSUME [Next]_vars
  PROVE  \/ bookings' = bookings
         \/ \E r \in Requests, q \in Quotes :
              Book(r, q) /\ bookings' = bookings \cup {Inserted(r, q)}
<1>1. ASSUME NEW r \in Requests, NEW q \in Quotes, Book(r, q)
      PROVE  bookings' = bookings \cup {Inserted(r, q)}
  BY <1>1 DEF Book, Inserted
<1>2. QED
  BY <1>1
     DEF Next, vars, shop, Start, ReadCart, WriteCart, QuoteRefused, GiveUp, Reload, QuoteCart,
         QuoteDraft, Issue, Send, Receive, CheckKey, CheckLimit, BookMeetsTwin, BookRefused,
         CartExpires, PriceChanges

LEMMA BookingsType ==
  ASSUME TypeOK, [Next]_vars
  PROVE  bookings' \subseteq BookingRows
<1>1. ASSUME NEW r \in Requests, NEW q \in Quotes, Book(r, q)
      PROVE  Inserted(r, q) \in BookingRows
  BY <1>1 DEF Book, Inserted, TypeOK, BookingRows, RequestStates
<1>2. QED
  BY <1>1, BookingsGrow DEF TypeOK

-----------------------------------------------------------------------------
(* Requests and their answers.                                               *)

(* What a step may do to a request.                                          *)
Sent(c) == [at |-> "key", key |-> Key(c), quote |-> client[c].quote, items |-> client[c].items,
            cart |-> IF c \in Pages THEN cookie ELSE {}, answer |-> {}]
Matches(r, b) == b.key = request[r].key /\ SameRequest(r, b)
Told(r, found) == [request[r] EXCEPT !.at = "answered", !.cart = {}, !.answer = found]

MovesTo(r, at) ==
  /\ request[r].at = IF at = "limit" THEN "key" ELSE "limit"
  /\ at = "book" => WithinPlan /\ bookings' = bookings
  /\ request'[r] = [request[r] EXCEPT !.at = at]
Moves(r) ==
  \/ request'[r] = request[r]
  \/ request'[r] = NoRequest
  \/ \E at \in {"limit", "book"} : MovesTo(r, at)
  \/ \E c \in Clients : client[c].at = "submit" /\ request'[r] = Sent(c)
  \/ \E found \in SUBSET bookings' :
       (\A b \in found : Matches(r, b)) /\ request'[r] = Told(r, found)

LEMMA RequestMoves ==
  ASSUME TypeOK, [Next]_vars, NEW r \in Requests
  PROVE  Moves(r)
<1> request \in [Requests -> RequestStates] /\ bookings \subseteq BookingRows
  BY DEF TypeOK
<1>1. ASSUME NEW s \in Requests, NEW found \in SUBSET BookingRows, Answer(s, found),
             found \subseteq bookings', \A b \in found : Matches(s, b)
      PROVE  Moves(r)
  <2>1. CASE s = r
    <3>1. request'[r] = NoRequest \/ request'[r] = Told(r, found)
      BY <1>1, <2>1, Answered DEF Told
    <3>2. QED
      BY <1>1, <2>1, <3>1 DEF Moves
  <2>2. CASE s # r
    BY <1>1, <2>2, Answered DEF Moves
  <2>3. QED
    BY <2>1, <2>2
<1>2. ASSUME NEW s \in Requests, Replay(s), bookings' = bookings
      PROVE  Moves(r)
  <2> DEFINE found == {b \in WithKey(s) : SameRequest(s, b)}
  <2>1. found \in SUBSET BookingRows /\ found \subseteq bookings' /\ \A b \in found : Matches(s, b)
    BY <1>2 DEF WithKey, Matches
  <2>2. Answer(s, found)
    BY <1>2 DEF Replay
  <2> HIDE DEF found
  <2>3. QED
    BY <1>1, <2>1, <2>2
<1>3. ASSUME NEW c \in Clients, NEW s \in Requests, Send(c, s)
      PROVE  Moves(r)
  BY <1>3 DEF Send, Sent, Moves
<1>4. ASSUME NEW c \in Clients, NEW s \in Requests, Receive(c, s)
      PROVE  Moves(r)
  BY <1>4 DEF Receive, Moves
<1>5. ASSUME NEW s \in Requests, CheckKey(s)
      PROVE  Moves(r)
  <2>1. bookings' = bookings
    BY <1>5 DEF CheckKey, shop
  <2>2. CASE Replay(s)
    BY <1>2, <2>1, <2>2
  <2>3. CASE request' = [request EXCEPT ![s].at = "limit"]
    BY <1>5, <2>3 DEF CheckKey, Moves, MovesTo
  <2>4. QED
    BY <1>5, <2>2, <2>3 DEF CheckKey
<1>6. ASSUME NEW s \in Requests, CheckLimit(s)
      PROVE  Moves(r)
  <2>1. bookings' = bookings
    BY <1>6 DEF CheckLimit, shop
  <2>2. CASE Answer(s, {})
    BY <1>1, <2>2
  <2>3. CASE WithinPlan /\ request' = [request EXCEPT ![s].at = "book"]
    BY <1>6, <2>1, <2>3 DEF CheckLimit, Moves, MovesTo
  <2>4. QED
    BY <1>6, <2>2, <2>3 DEF CheckLimit
<1>7. ASSUME NEW s \in Requests, BookMeetsTwin(s)
      PROVE  Moves(r)
  BY <1>2, <1>7 DEF BookMeetsTwin, shop
<1>8. ASSUME NEW s \in Requests, BookRefused(s)
      PROVE  Moves(r)
  BY <1>1, <1>8 DEF BookRefused
<1>9. ASSUME NEW s \in Requests, NEW q \in Quotes, Book(s, q)
      PROVE  Moves(r)
  <2>1. request[s].quote = {q}
    BY <1>9 DEF Book, RequestStates, AtMostOne
  <2>2. Matches(s, Inserted(s, q))
    BY <2>1 DEF Matches, SameRequest, Inserted
  <2>3. Answer(s, {Inserted(s, q)}) /\ bookings' = bookings \cup {Inserted(s, q)}
    BY <1>9 DEF Book, Inserted
  <2>4. bookings' \subseteq BookingRows
    BY BookingsType
  <2>5. QED
    BY <1>1, <2>2, <2>3, <2>4
<1>10. CASE request' = request
  BY <1>10 DEF Moves
<1>11. QED
  <2>1. \/ request' = request
        \/ \E c \in Clients, s \in Requests : Send(c, s) \/ Receive(c, s)
        \/ \E s \in Requests : CheckKey(s) \/ CheckLimit(s) \/ BookMeetsTwin(s) \/ BookRefused(s)
        \/ \E s \in Requests, q \in Quotes : Book(s, q)
    BY DEF Next, vars, shop, Start, ReadCart, WriteCart, QuoteRefused, GiveUp, Reload, QuoteCart,
           QuoteDraft, Issue, CartExpires, PriceChanges
  <2>2. QED
    BY <1>3, <1>4, <1>5, <1>6, <1>7, <1>8, <1>9, <1>10, <2>1

(* Nobody is told of a booking that is not there or not the one asked for.    *)
LEMMA AnswersType ==
  ASSUME TypeOK, AnswersMatch, [Next]_vars
  PROVE  /\ \A r \in Requests : /\ request'[r].at \in {"key", "limit", "book"} =>
                                     /\ request'[r].items \in Baskets
                                     /\ request'[r].key \in Clients \X Nat
                                /\ request'[r].answer \subseteq bookings'
         /\ AnswersMatch'
<1> SUFFICES ASSUME NEW r \in Requests
             PROVE  /\ request'[r].at \in {"key", "limit", "book"} =>
                         request'[r].items \in Baskets /\ request'[r].key \in Clients \X Nat
                    /\ request'[r].answer \subseteq bookings'
                    /\ \A b \in request'[r].answer :
                         /\ b.key = request'[r].key /\ b.quote = request'[r].quote
                         /\ b.items = request'[r].items
  BY DEF AnswersMatch
<1>1. /\ request[r] \in RequestStates
      /\ request[r].at \in {"key", "limit", "book"} =>
           request[r].items \in Baskets /\ request[r].key \in Clients \X Nat
      /\ request[r].answer \subseteq bookings
      /\ \A b \in request[r].answer :
           b.key = request[r].key /\ b.quote = request[r].quote /\ b.items = request[r].items
  BY DEF TypeOK, AnswersMatch
<1>2. bookings \subseteq bookings'
  BY BookingsGrow
<1>3. CASE request'[r] = request[r]
  BY <1>1, <1>2, <1>3
<1>4. CASE request'[r] = NoRequest
  BY <1>4 DEF NoRequest
<1>5. CASE \E at \in {"limit", "book"} : MovesTo(r, at)
  <2>1. PICK at \in {"limit", "book"} : MovesTo(r, at)
    BY <1>5
  <2>2. /\ request'[r].items = request[r].items /\ request'[r].key = request[r].key
        /\ request'[r].quote = request[r].quote /\ request'[r].answer = request[r].answer
    BY <1>1, <2>1 DEF MovesTo, RequestStates
  <2>3. request[r].at \in {"key", "limit"}
    BY <2>1 DEF MovesTo
  <2>4. QED
    BY <1>1, <1>2, <2>2, <2>3
<1>6. CASE \E c \in Clients : client[c].at = "submit" /\ request'[r] = Sent(c)
  <2>1. PICK c \in Clients : client[c].at = "submit" /\ request'[r] = Sent(c)
    BY <1>6
  <2>2. Key(c) \in Clients \X Nat /\ client[c].items \in Baskets
    BY <2>1 DEF TypeOK, Key, ClientStates
  <2>3. QED
    BY <2>1, <2>2 DEF Sent
<1>7. CASE \E found \in SUBSET bookings' :
             (\A b \in found : Matches(r, b)) /\ request'[r] = Told(r, found)
  <2>1. PICK found \in SUBSET bookings' :
          (\A b \in found : Matches(r, b)) /\ request'[r] = Told(r, found)
    BY <1>7
  <2>2. /\ request'[r].at = "answered" /\ request'[r].answer = found
        /\ request'[r].key = request[r].key /\ request'[r].quote = request[r].quote
        /\ request'[r].items = request[r].items
    BY <1>1, <2>1 DEF Told, RequestStates
  <2>3. QED
    BY <2>1, <2>2 DEF Matches, SameRequest
<1>8. \/ request'[r] = request[r] \/ request'[r] = NoRequest
      \/ \E at \in {"limit", "book"} : MovesTo(r, at)
      \/ \E c \in Clients : client[c].at = "submit" /\ request'[r] = Sent(c)
      \/ \E found \in SUBSET bookings' :
           (\A b \in found : Matches(r, b)) /\ request'[r] = Told(r, found)
  BY RequestMoves DEF Moves
<1>9. QED
  BY <1>3, <1>4, <1>5, <1>6, <1>7, <1>8

LEMMA NextType == TypeOK /\ AnswersMatch /\ [Next]_vars => TypeOK'
BY RequestsType, ClientsType, CartsType, QuotesType, BookingsType, AnswersType DEF TypeOK

-----------------------------------------------------------------------------
(* Quotes, carts and keys make one booking each.                             *)

(* A booking has one quote, which was made and says what the booking says.   *)
Quoted ==
  \A b \in bookings : \E q \in Quotes :
    /\ b.quote = {q} /\ quotes[q].made
    /\ quotes[q].items = b.items /\ quotes[q].price = b.price /\ quotes[q].cart = b.cart

(* A booking's cart is checked out.                                          *)
CartsTaken == \A b \in bookings : \A cart \in b.cart : carts[cart].status = "CHECKED_OUT"

LEMMA QuotesStay ==
  ASSUME TypeOK, [Next]_vars, NEW q \in Quotes, quotes[q].made
  PROVE  quotes'[q] = quotes[q]
<1> quotes \in [Quotes -> QuoteRows]
  BY DEF TypeOK
<1>1. ASSUME NEW c \in Clients, NEW p \in Quotes, QuoteCart(c, p) \/ QuoteDraft(c, p)
      PROVE  quotes'[q] = quotes[q]
  BY <1>1 DEF QuoteCart, QuoteDraft, Issue
<1>2. CASE quotes' = quotes
  BY <1>2
<1>3. QED
  BY <1>1, <1>2
     DEF Next, vars, shop, Start, ReadCart, WriteCart, QuoteRefused, GiveUp, Reload, Send, Receive,
         CheckKey, CheckLimit, Book, BookMeetsTwin, BookRefused, CartExpires, PriceChanges

LEMMA CartsStay ==
  ASSUME TypeOK, [Next]_vars, NEW cart \in Carts, carts[cart].status = "CHECKED_OUT"
  PROVE  carts'[cart].status = "CHECKED_OUT"
<1> carts \in [Carts -> CartRows]
  BY DEF TypeOK
<1>1. ASSUME NEW c \in Clients, NEW d \in Carts, WriteCart(c, d)
      PROVE  carts'[cart].status = "CHECKED_OUT"
  BY <1>1 DEF WriteCart, CartRows
<1>2. ASSUME NEW d \in Carts, CartExpires(d)
      PROVE  carts'[cart].status = "CHECKED_OUT"
  BY <1>2 DEF CartExpires
<1>3. ASSUME NEW r \in Requests, NEW q \in Quotes, Book(r, q)
      PROVE  carts'[cart].status = "CHECKED_OUT"
  BY <1>3 DEF Book, CartRows
<1>4. CASE carts' = carts
  BY <1>4
<1>5. QED
  BY <1>1, <1>2, <1>3, <1>4
     DEF Next, vars, shop, Start, ReadCart, QuoteRefused, GiveUp, Reload, QuoteCart, QuoteDraft,
         Issue, Send, Receive, CheckKey, CheckLimit, BookMeetsTwin, BookRefused, PriceChanges

LEMMA NextQuoted == TypeOK /\ Quoted /\ [Next]_vars => Quoted'
<1> SUFFICES ASSUME TypeOK, Quoted, [Next]_vars, NEW b \in bookings'
             PROVE  \E q \in Quotes : /\ b.quote = {q} /\ quotes'[q].made
                                      /\ quotes'[q].items = b.items /\ quotes'[q].price = b.price
                                      /\ quotes'[q].cart = b.cart
  BY DEF Quoted
<1>1. CASE b \in bookings
  BY <1>1, QuotesStay DEF Quoted
<1>2. CASE b \notin bookings
  <2>1. PICK r \in Requests, q \in Quotes : Book(r, q) /\ b = Inserted(r, q)
    BY <1>2, BookingsGrow
  <2>2. quotes' = quotes /\ QuoteHolds(r, q)
    BY <2>1 DEF Book
  <2>3. QED
    BY <2>1, <2>2 DEF QuoteHolds, Inserted
<1>3. QED
  BY <1>1, <1>2

LEMMA NextCartsTaken == TypeOK /\ CartsTaken /\ [Next]_vars => CartsTaken'
<1> SUFFICES ASSUME TypeOK, CartsTaken, [Next]_vars, NEW b \in bookings', NEW cart \in b.cart
             PROVE  carts'[cart].status = "CHECKED_OUT"
  BY DEF CartsTaken
<1> cart \in Carts
  BY BookingsType DEF BookingRows
<1>1. CASE b \in bookings
  BY <1>1, CartsStay DEF CartsTaken
<1>2. CASE b \notin bookings
  <2>1. PICK r \in Requests, q \in Quotes : Book(r, q) /\ b = Inserted(r, q)
    BY <1>2, BookingsGrow
  <2>2. cart \in request[r].cart /\ carts[cart] \in CartRows
    BY <2>1 DEF Inserted, TypeOK
  <2>3. carts'[cart] = [carts[cart] EXCEPT !.status = "CHECKED_OUT"]
    BY <2>1, <2>2 DEF Book
  <2>4. QED
    BY <2>2, <2>3 DEF CartRows
<1>3. QED
  BY <1>1, <1>2

LEMMA NextBookedOnce == TypeOK /\ CartsTaken /\ BookedOnce /\ [Next]_vars => BookedOnce'
<1> DEFINE Apart(a, b) == a.key # b.key /\ a.quote \cap b.quote = {} /\ a.cart \cap b.cart = {}
<1> SUFFICES ASSUME TypeOK, CartsTaken, BookedOnce, [Next]_vars
             PROVE  BookedOnce'
  OBVIOUS
<1>1. ASSUME NEW r \in Requests, NEW q \in Quotes, Book(r, q), NEW a \in bookings
      PROVE  Apart(a, Inserted(r, q))
  <2>1. a.key # request[r].key
    BY <1>1 DEF Book, KeyFree, WithKey
  <2>2. q \notin a.quote
    BY <1>1 DEF Book, QuoteHolds, Used
  <2>3. a.cart \cap request[r].cart = {}
    BY <1>1 DEF Book, CartHolds, CartsTaken
  <2>4. QED
    BY <2>1, <2>2, <2>3 DEF Inserted
<1>2. \A a, b \in bookings : a = b \/ Apart(a, b)
  BY DEF BookedOnce
<1>3. \A a, b \in bookings' : a = b \/ Apart(a, b)
  <2>1. CASE bookings' = bookings
    BY <1>2, <2>1
  <2>2. ASSUME NEW r \in Requests, NEW q \in Quotes, Book(r, q),
               bookings' = bookings \cup {Inserted(r, q)}
        PROVE  \A a, b \in bookings' : a = b \/ Apart(a, b)
    <3>1. \A a \in bookings : Apart(a, Inserted(r, q)) /\ Apart(Inserted(r, q), a)
      BY <1>1, <2>2
    <3> HIDE DEF Apart
    <3>2. QED
      BY <1>2, <2>2, <3>1
  <2>3. QED
    BY <2>1, <2>2, BookingsGrow
<1>4. QED
  BY <1>3 DEF BookedOnce


-----------------------------------------------------------------------------
(* How far the plan's limit is overrun.                                      *)

(* Where a step that moves a request leaves it.                              *)
LEMMA WhereMoved ==
  ASSUME TypeOK, NEW r \in Requests
  PROVE  /\ NoRequest.at = "idle"
         /\ \A c \in Clients : Sent(c).at = "key"
         /\ \A found : Told(r, found).at = "answered"
         /\ \A at : [request[r] EXCEPT !.at = at].at = at
<1>1. request[r] \in RequestStates
  BY DEF TypeOK
<1>2. DOMAIN request[r] = {"at", "key", "quote", "items", "cart", "answer"}
  BY <1>1 DEF RequestStates
<1>3. ASSUME NEW found
      PROVE  Told(r, found).at = "answered"
  BY <1>2 DEF Told
<1>4. ASSUME NEW at
      PROVE  [request[r] EXCEPT !.at = at].at = at
  BY <1>2
<1>5. QED
  BY <1>3, <1>4 DEF NoRequest, Sent

(* The requests about to book and the bookings there are.                    *)
LEMMA BookingCounts ==
  ASSUME TypeOK, IsFiniteSet(bookings)
  PROVE  /\ IsFiniteSet(Requests) /\ MaxOrders \in Nat /\ Cardinality(Requests) \in Nat
         /\ AboutToBook \subseteq Requests /\ AboutToBook' \subseteq Requests
         /\ IsFiniteSet(AboutToBook) /\ IsFiniteSet(AboutToBook')
         /\ Cardinality(bookings) \in Nat
         /\ Cardinality(AboutToBook) \in Nat /\ Cardinality(AboutToBook') \in Nat
         /\ Cardinality(AboutToBook') <= Cardinality(Requests)
<1>1. IsFiniteSet(Requests) /\ MaxOrders \in Nat
  BY CheckoutAssumption
<1>2. /\ AboutToBook \subseteq Requests /\ AboutToBook' \subseteq Requests
      /\ IsFiniteSet(AboutToBook) /\ IsFiniteSet(AboutToBook')
  BY <1>1, FS_Subset DEF AboutToBook
<1>3. QED
  BY <1>1, <1>2, FS_CardinalityType, FS_Subset

(* One that books is about to no longer.                                     *)
LEMMA BooksOne ==
  ASSUME TypeOK, IsFiniteSet(bookings), [Next]_vars, NEW r \in Requests, NEW q \in Quotes,
         Book(r, q), bookings' = bookings \cup {Inserted(r, q)}
  PROVE  /\ IsFiniteSet(bookings') /\ Cardinality(bookings') \in Nat
         /\ Cardinality(bookings') + Cardinality(AboutToBook')
              <= Cardinality(bookings) + Cardinality(AboutToBook)
<1>1. /\ IsFiniteSet(AboutToBook) /\ Cardinality(bookings) \in Nat
      /\ Cardinality(AboutToBook) \in Nat /\ Cardinality(AboutToBook') \in Nat
  BY BookingCounts
<1>2. IsFiniteSet(bookings') /\ Cardinality(bookings') <= Cardinality(bookings) + 1
  <2> DEFINE more == bookings \cup {Inserted(r, q)}
  <2>1. IsFiniteSet(more) /\ (\/ Cardinality(more) = Cardinality(bookings)
                              \/ Cardinality(more) = Cardinality(bookings) + 1)
    BY FS_AddElement
  <2>2. bookings' = more
    OBVIOUS
  <2> HIDE DEF more
  <2>3. IsFiniteSet(more) /\ Cardinality(more) <= Cardinality(bookings) + 1
    BY <1>1, <2>1
  <2>4. QED
    BY <2>2, <2>3
<1>3. r \in AboutToBook
  BY DEF Book, AboutToBook
<1>4. AboutToBook' \subseteq AboutToBook \ {r}
  <2>1. PICK found \in SUBSET BookingRows : Answer(r, found)
    <3>1. Answer(r, {Inserted(r, q)})
      BY DEF Book, Inserted
    <3>2. Inserted(r, q) \in BookingRows
      BY BookingsType
    <3>3. QED
      BY <3>1, <3>2
  <2>2. request'[r].at # "book"
    <3>1. request'[r] = NoRequest \/ request'[r] = Told(r, found)
      BY <2>1, Answered DEF Told
    <3>2. QED
      BY <3>1, WhereMoved
  <2>3. QED
    BY <2>1, <2>2, Answered DEF AboutToBook
<1>5. Cardinality(AboutToBook') <= Cardinality(AboutToBook) - 1
  <2> DEFINE rest == AboutToBook \ {r}
  <2>1. IsFiniteSet(rest) /\ Cardinality(rest) = Cardinality(AboutToBook) - 1
    BY <1>1, <1>3, FS_RemoveElement
  <2>2. AboutToBook' \subseteq rest
    BY <1>4
  <2> HIDE DEF rest
  <2>3. Cardinality(AboutToBook') <= Cardinality(rest)
    BY <2>1, <2>2, FS_Subset
  <2>4. QED
    BY <2>1, <2>3
<1>6. Cardinality(bookings') \in Nat
  <2> DEFINE now == bookings'
  <2>1. IsFiniteSet(now)
    BY <1>2
  <2> HIDE DEF now
  <2>2. Cardinality(now) \in Nat
    BY <2>1, FS_CardinalityType
  <2>3. QED
    BY <2>2 DEF now
<1>7. QED
  BY <1>1, <1>2, <1>5, <1>6

(* A request changes by a step of its own.                                   *)
LEMMA OwnSteps ==
  ASSUME TypeOK, [Next]_vars, NEW r \in Requests, request'[r] # request[r]
  PROVE  \/ CheckKey(r) \/ CheckLimit(r) \/ BookMeetsTwin(r) \/ BookRefused(r)
         \/ \E q \in Quotes : Book(r, q)
         \/ \E c \in Clients : Send(c, r) \/ Receive(c, r)
<1>1. request \in [Requests -> RequestStates]
  BY DEF TypeOK
<1>2. \A s \in Requests : \A found : Answer(s, found) /\ s # r => request'[r] = request[r]
  BY <1>1 DEF Answer
<1>3. \A s \in Requests : Replay(s) /\ s # r => request'[r] = request[r]
  BY <1>2 DEF Replay
<1>4. ASSUME NEW s \in Requests, s # r, CheckKey(s) \/ CheckLimit(s)
      PROVE  request'[r] = request[r]
  BY <1>1, <1>2, <1>3, <1>4 DEF CheckKey, CheckLimit
<1>5. ASSUME NEW s \in Requests, s # r,
             \/ BookMeetsTwin(s) \/ BookRefused(s) \/ \E q \in Quotes : Book(s, q)
             \/ \E c \in Clients : Send(c, s) \/ Receive(c, s)
      PROVE  request'[r] = request[r]
  BY <1>1, <1>2, <1>3, <1>5 DEF BookMeetsTwin, BookRefused, Book, Send, Receive
<1>6. request' # request
  OBVIOUS
<1>7. \E s \in Requests :
        \/ CheckKey(s) \/ CheckLimit(s) \/ BookMeetsTwin(s) \/ BookRefused(s)
        \/ \E q \in Quotes : Book(s, q)
        \/ \E c \in Clients : Send(c, s) \/ Receive(c, s)
  BY <1>6 DEF Next, vars, shop, Start, ReadCart, WriteCart, QuoteRefused, GiveUp, Reload,
     QuoteCart, QuoteDraft, Issue, CartExpires, PriceChanges
<1>8. QED
  BY <1>4, <1>5, <1>7

(* Only a check that finds room lets a request book.                         *)
LEMMA OnlyCheckAdmits ==
  ASSUME TypeOK, [Next]_vars, NEW r \in Requests,
         request'[r].at = "book", request[r].at # "book"
  PROVE  CheckLimit(r) /\ WithinPlan
<1>1. request[r].at = "limit" /\ WithinPlan
  <2>1. Moves(r)
    BY RequestMoves
  <2>2. QED
    BY <2>1, WhereMoved DEF Moves, MovesTo
<1>2. /\ ~CheckKey(r) /\ ~BookMeetsTwin(r) /\ ~BookRefused(r) /\ \A q \in Quotes : ~Book(r, q)
      /\ \A c \in Clients : ~Send(c, r) /\ ~Receive(c, r)
  BY <1>1 DEF CheckKey, BookMeetsTwin, BookRefused, Book, Send, Receive
<1>3. QED
  BY <1>1, <1>2, OwnSteps

(* A request that passes the limit's check finds less than the limit's       *)
(* bookings.                                                                 *)
LEMMA NextOverrun ==
  TypeOK /\ IsFiniteSet(bookings) /\ LimitOverrunBounded /\ [Next]_vars
    => IsFiniteSet(bookings') /\ LimitOverrunBounded'
<1> SUFFICES ASSUME TypeOK, IsFiniteSet(bookings), LimitOverrunBounded, [Next]_vars
             PROVE  IsFiniteSet(bookings') /\ LimitOverrunBounded'
  OBVIOUS
<1>1. /\ MaxOrders \in Nat /\ Cardinality(Requests) \in Nat /\ IsFiniteSet(AboutToBook)
      /\ Cardinality(bookings) \in Nat /\ Cardinality(AboutToBook) \in Nat
      /\ Cardinality(AboutToBook') \in Nat /\ Cardinality(AboutToBook') <= Cardinality(Requests)
  BY BookingCounts
<1>2. CASE \E r \in Requests, q \in Quotes :
             Book(r, q) /\ bookings' = bookings \cup {Inserted(r, q)}
  <2>1. PICK r \in Requests, q \in Quotes :
              Book(r, q) /\ bookings' = bookings \cup {Inserted(r, q)}
    BY <1>2
  <2>2. /\ IsFiniteSet(bookings') /\ Cardinality(bookings') \in Nat
        /\ Cardinality(bookings') + Cardinality(AboutToBook')
             <= Cardinality(bookings) + Cardinality(AboutToBook)
    BY <2>1, BooksOne
  <2>3. QED
    BY <1>1, <2>2 DEF LimitOverrunBounded
<1>3. CASE bookings' = bookings
  <2>1. CASE WithinPlan
    BY <1>1, <1>3, <2>1 DEF WithinPlan, LimitOverrunBounded
  <2>2. CASE ~WithinPlan
    <3>1. AboutToBook' \subseteq AboutToBook
      BY <2>2, OnlyCheckAdmits DEF AboutToBook
    <3>2. Cardinality(AboutToBook') <= Cardinality(AboutToBook)
      BY <1>1, <3>1, FS_Subset
    <3>3. QED
      BY <1>1, <1>3, <3>2 DEF LimitOverrunBounded
  <2>3. QED
    BY <2>1, <2>2
<1>4. QED
  BY <1>2, <1>3, BookingsGrow

(* A request's check of the limit finds no other that passed it and has not  *)
(* come to its end.                                                          *)
CheckedAlone == \A r \in Requests : CheckLimit(r) => AboutToBook = {}

LEMMA NextWithinLimit ==
  TypeOK /\ IsFiniteSet(bookings) /\ [Next]_vars /\ [CheckedAlone]_vars
    /\ Cardinality(bookings) + Cardinality(AboutToBook) <= MaxOrders
    => (Cardinality(bookings) + Cardinality(AboutToBook) <= MaxOrders)'
<1> SUFFICES ASSUME TypeOK, IsFiniteSet(bookings), [Next]_vars, [CheckedAlone]_vars,
                    Cardinality(bookings) + Cardinality(AboutToBook) <= MaxOrders
             PROVE  Cardinality(bookings') + Cardinality(AboutToBook') <= MaxOrders
  OBVIOUS
<1>1. /\ MaxOrders \in Nat /\ IsFiniteSet(AboutToBook)
      /\ Cardinality(bookings) \in Nat /\ Cardinality(AboutToBook) \in Nat
      /\ Cardinality(AboutToBook') \in Nat
  BY BookingCounts
<1>2. CASE \E r \in Requests, q \in Quotes :
             Book(r, q) /\ bookings' = bookings \cup {Inserted(r, q)}
  <2>1. PICK r \in Requests, q \in Quotes :
              Book(r, q) /\ bookings' = bookings \cup {Inserted(r, q)}
    BY <1>2
  <2>2. /\ Cardinality(bookings') \in Nat
        /\ Cardinality(bookings') + Cardinality(AboutToBook')
             <= Cardinality(bookings) + Cardinality(AboutToBook)
    BY <2>1, BooksOne
  <2>3. QED
    BY <1>1, <2>2
<1>3. CASE bookings' = bookings /\ AboutToBook' \subseteq AboutToBook
  <2>1. Cardinality(AboutToBook') <= Cardinality(AboutToBook)
    BY <1>1, <1>3, FS_Subset
  <2>2. QED
    BY <1>1, <1>3, <2>1
<1>4. CASE bookings' = bookings /\ ~(AboutToBook' \subseteq AboutToBook)
  <2>1. PICK r \in AboutToBook' : r \notin AboutToBook
    BY <1>4
  <2>2. r \in Requests /\ request'[r].at = "book" /\ request[r].at # "book"
    BY <2>1 DEF AboutToBook
  <2>3. CheckLimit(r) /\ WithinPlan /\ request' # request
    BY <2>2, OnlyCheckAdmits
  <2>4. AboutToBook = {}
    BY <2>2, <2>3 DEF CheckedAlone, vars
  <2>5. AboutToBook' \subseteq {r}
    <3>1. ASSUME NEW s \in Requests, request'[s].at = "book"
          PROVE  s = r
      <4>1. request[s].at # "book"
        BY <2>4, <3>1 DEF AboutToBook
      <4>2. CheckLimit(s)
        BY <3>1, <4>1, OnlyCheckAdmits
      <4>3. CheckLimit(r) /\ CheckLimit(s) => s = r \/ request'[s] = request[s]
        BY DEF CheckLimit, Answer, TypeOK
      <4>4. QED
        BY <2>3, <3>1, <4>1, <4>2, <4>3
    <3>2. QED
      BY <3>1 DEF AboutToBook
  <2>6. Cardinality(AboutToBook') <= 1
    <3> DEFINE one == {r}
               now == AboutToBook'
    <3>1. IsFiniteSet(one) /\ Cardinality(one) = 1
      BY FS_Singleton
    <3>2. now \subseteq one
      BY <2>5
    <3> HIDE DEF one, now
    <3>3. Cardinality(now) <= Cardinality(one)
      BY <3>1, <3>2, FS_Subset
    <3>4. Cardinality(now) <= 1
      BY <3>1, <3>3
    <3>5. QED
      BY <3>4 DEF now
  <2>7. QED
    BY <1>1, <1>4, <2>3, <2>6 DEF WithinPlan
<1>5. QED
  BY <1>2, <1>3, <1>4, BookingsGrow

-----------------------------------------------------------------------------
(* What is taken.  The transaction adds at most one booking, for which there *)
(* is room beside all the others; nothing else adds to what is taken.        *)

Items(S) == [b \in S |-> b.items]

LEMMA TakenInSet ==
  /\ Taken = SumFunctionOnSet(Items(bookings), bookings)
  /\ Taken' = SumFunctionOnSet(Items(bookings'), bookings')
BY DEF Taken, Items, SumFunction

LEMMA NextTaken ==
  TypeOK /\ IsFiniteSet(bookings) /\ Taken <= Capacity /\ [Next]_vars
    => Taken' <= Capacity
<1> SUFFICES ASSUME TypeOK, IsFiniteSet(bookings), Taken <= Capacity, [Next]_vars
             PROVE  Taken' <= Capacity
  OBVIOUS
<1>1. CASE bookings' = bookings
  BY <1>1 DEF Taken
<1>2. ASSUME NEW r \in Requests, NEW q \in Quotes, Book(r, q)
      PROVE  Taken' <= Capacity
  <2> DEFINE made == Inserted(r, q)
  <2>1. bookings' = bookings \cup {made} /\ made.items + Taken <= Capacity
    BY <1>2 DEF Book, StillFree, Available, Inserted
  <2>2. made.items \in Int /\ \A b \in bookings : b.items \in Int
    BY <1>2, CheckoutAssumption DEF TypeOK, Book, BookingRows, Inserted
  <2> HIDE DEF made
  <2>3. CASE made \in bookings
    BY <1>1, <2>1, <2>3
  <2>4. CASE made \notin bookings
    <3> DEFINE more == bookings \cup {made}
               f == Items(more)
    <3>1. \A b \in bookings \cup {made} : f[b] = b.items /\ f[b] \in Int
      BY <2>2 DEF Items
    <3>2. SumFunctionOnSet(f, more) = made.items + SumFunctionOnSet(f, bookings)
      <4> HIDE DEF f
      <4>1. SumFunctionOnSet(f, bookings \cup {made}) = f[made] + SumFunctionOnSet(f, bookings)
        BY <2>4, <3>1, OneMore
      <4>2. QED
        BY <3>1, <4>1
    <3>3. SumFunctionOnSet(f, bookings) = SumFunctionOnSet(Items(bookings), bookings)
      BY SameSum DEF Items
    <3>4. QED
      BY <2>1, <3>2, <3>3, TakenInSet
  <2>5. QED
    BY <2>3, <2>4
<1>3. QED
  BY <1>1, <1>2, BookingsGrow

-----------------------------------------------------------------------------
(* Requests with one key.                                                    *)

(* A request between its replay check and the end of its transaction.        *)
Checked(r) == request[r].at \in {"limit", "book"}

(* No booking is made while another request with its key is so far.          *)
KeysApart ==
  \A r \in Requests, q \in Quotes : Book(r, q) =>
    \A s \in Requests \ {r} : Checked(s) => request[s].key # request[r].key

(* What such a request asks for is not booked yet.                           *)
NotMadeYet == \A r \in Requests : Checked(r) => WithKey(r) = {}

LEMMA AnsweredEnds ==
  ASSUME TypeOK, NEW r \in Requests, NEW found \in SUBSET BookingRows, Answer(r, found)
  PROVE  request'[r].at \in {"idle", "answered"}
<1>1. \/ request'[r] = NoRequest
      \/ request'[r] = [request[r] EXCEPT !.at = "answered", !.cart = {}, !.answer = found]
  BY Answered
<1>2. NoRequest.at = "idle" /\ Told(r, found).at = "answered"
  BY WhereMoved
<1>3. QED
  BY <1>1, <1>2 DEF Told

LEMMA NextNotMadeYet ==
  TypeOK /\ NotMadeYet /\ [Next]_vars /\ [KeysApart]_vars => NotMadeYet'
<1> SUFFICES ASSUME TypeOK, NotMadeYet, [Next]_vars, [KeysApart]_vars,
                    NEW r \in Requests, Checked(r)'
             PROVE  \A b \in bookings' : b.key # request'[r].key
  BY DEF NotMadeYet, WithKey
<1>1. DOMAIN request[r] = {"at", "key", "quote", "items", "cart", "answer"}
  BY DEF TypeOK, RequestStates
<1>2. ASSUME request'[r] # request[r], request[r].at # "limit"
      PROVE  /\ bookings' = bookings /\ request'[r].key = request[r].key
             /\ WithKey(r) = {}
  <2>1. MovesTo(r, "limit")
    <3>1. Moves(r)
      BY RequestMoves
    <3>2. QED
      BY <1>2, <3>1, WhereMoved DEF Moves, MovesTo, Checked
  <2>2. request[r].at = "key" /\ request'[r] = [request[r] EXCEPT !.at = "limit"]
    BY <2>1 DEF MovesTo
  <2>3. CheckKey(r)
    <3>1. /\ ~CheckLimit(r) /\ ~BookMeetsTwin(r) /\ ~BookRefused(r) /\ \A q \in Quotes : ~Book(r, q)
          /\ \A c \in Clients : ~Send(c, r) /\ ~Receive(c, r)
      BY <2>2 DEF CheckLimit, BookMeetsTwin, BookRefused, Book, Send, Receive
    <3>2. QED
      BY <1>2, <3>1, OwnSteps
  <2>4. ~Replay(r)
    <3> SUFFICES ASSUME Replay(r)
                 PROVE  FALSE
      OBVIOUS
    <3> DEFINE found == {b \in WithKey(r) : SameRequest(r, b)}
    <3>1. found \in SUBSET BookingRows /\ Answer(r, found)
      BY DEF WithKey, TypeOK, Replay
    <3> HIDE DEF found
    <3>2. request'[r].at \in {"idle", "answered"}
      BY <3>1, AnsweredEnds
    <3>3. QED
      BY <3>2 DEF Checked
  <2>5. QED
    BY <1>1, <2>2, <2>3, <2>4 DEF CheckKey, shop
<1>3. ASSUME request'[r] # request[r], request[r].at = "limit"
      PROVE  bookings' = bookings /\ request'[r].key = request[r].key /\ Checked(r)
  <2>1. MovesTo(r, "book")
    <3>1. Moves(r)
      BY RequestMoves
    <3>2. QED
      BY <1>3, <3>1, WhereMoved DEF Moves, MovesTo, Checked
  <2>2. QED
    BY <1>1, <1>3, <2>1 DEF MovesTo, Checked
<1>4. CASE request'[r] = request[r]
  <2>1. Checked(r) /\ WithKey(r) = {}
    BY <1>4 DEF Checked, NotMadeYet
  <2>2. CASE bookings' = bookings
    BY <1>4, <2>1, <2>2 DEF WithKey
  <2>3. ASSUME NEW s \in Requests, NEW q \in Quotes, Book(s, q),
               bookings' = bookings \cup {Inserted(s, q)}
        PROVE  \A b \in bookings' : b.key # request'[r].key
    <3>1. Inserted(s, q).key = request[s].key
      BY DEF Inserted
    <3>2. s # r
      <4>1. ASSUME Book(r, q)
            PROVE  FALSE
        <5>1. Inserted(r, q) \in BookingRows /\ Answer(r, {Inserted(r, q)})
          BY <4>1 DEF Book, Inserted, TypeOK, BookingRows, RequestStates
        <5>2. request'[r].at \in {"idle", "answered"}
          BY <5>1, AnsweredEnds
        <5>3. QED
          BY <5>2 DEF Checked
      <4>2. QED
        BY <2>3, <4>1
    <3>3. request[r].key # request[s].key
      <4>1. CASE KeysApart
        BY <2>1, <2>3, <3>2, <4>1 DEF KeysApart
      <4>2. CASE UNCHANGED vars
        <5>1. request'[s].at \in {"idle", "answered"} /\ request[s].at = "book"
          <6>1. Inserted(s, q) \in BookingRows /\ Answer(s, {Inserted(s, q)})
            BY <2>3 DEF Book, Inserted, TypeOK, BookingRows, RequestStates
          <6>2. QED
            BY <2>3, <6>1, AnsweredEnds DEF Book
        <5>2. QED
          BY <4>2, <5>1 DEF vars
      <4>3. QED
        BY <4>1, <4>2
    <3>4. QED
      BY <1>4, <2>1, <2>3, <3>1, <3>3 DEF WithKey
  <2>4. QED
    BY <2>2, <2>3, BookingsGrow
<1>5. QED
  <2>1. CASE request'[r] # request[r]
    BY <1>2, <1>3, <2>1 DEF NotMadeYet, WithKey
  <2>2. QED
    BY <1>4, <2>1

-----------------------------------------------------------------------------
(* Together.                                                                 *)

Inv ==
  /\ TypeOK /\ AnswersMatch
  /\ Quoted /\ CartsTaken /\ BookedOnce
  /\ IsFiniteSet(bookings) /\ LimitOverrunBounded /\ NeverOversold

LEMMA InitInv == Init => Inv
<1> SUFFICES ASSUME Init
             PROVE  Inv
  OBVIOUS
<1>1. AnswersMatch /\ Quoted /\ CartsTaken /\ BookedOnce
  BY DEF Init, NoRequest, AnswersMatch, Quoted, CartsTaken, BookedOnce
<1>2. IsFiniteSet(bookings) /\ Cardinality(bookings) = 0
  BY FS_EmptySet DEF Init
<1>3. Cardinality(AboutToBook) = 0
  <2>1. AboutToBook = {}
    BY DEF Init, NoRequest, AboutToBook
  <2>2. QED
    BY <2>1, FS_EmptySet
<1>4. MaxOrders \in Nat /\ Cardinality(Requests) \in Nat
  BY CheckoutAssumption, FS_CardinalityType
<1>5. LimitOverrunBounded
  BY <1>2, <1>3, <1>4 DEF LimitOverrunBounded
<1>6. NeverOversold
  <2>1. bookings = {} /\ Capacity \in Nat
    BY CheckoutAssumption DEF Init
  <2>2. QED
    BY <2>1, TakenInSet, EmptySum DEF NeverOversold
<1>7. QED
  BY <1>1, <1>2, <1>5, <1>6, InitType DEF Inv

LEMMA NextInv == Inv /\ [Next]_vars => Inv'
BY NextType, AnswersType, NextQuoted, NextCartsTaken, NextBookedOnce, NextOverrun, NextTaken
   DEF Inv, NeverOversold

LEMMA AlwaysInv == Spec => []Inv
BY InitInv, NextInv, PTL DEF Spec

(* Every variable of checkout keeps its type; what is submitted is a basket,  *)
(* and nobody is told of a booking that is not there.                        *)
THEOREM TypeCorrect == Spec => []TypeOK
<1>1. Inv => TypeOK
  BY DEF Inv
<1>2. QED
  BY <1>1, AlwaysInv, PTL

(* Every booking is what its customer was quoted, with any number of pages,   *)
(* carts, quotes and changes of the price list (createBooking's check of the *)
(* quote inside its transaction).                                            *)
THEOREM AlwaysBookedAsQuoted == Spec => []BookedAsQuoted
<1>1. Inv => BookedAsQuoted
  BY DEF Inv, Quoted, BookedAsQuoted
<1>2. QED
  BY <1>1, AlwaysInv, PTL

(* No key, quote or cart makes two bookings, however often and at whatever    *)
(* moment requests are repeated.                                             *)
THEOREM AlwaysBookedOnce == Spec => []BookedOnce
<1>1. Inv => BookedOnce
  BY DEF Inv
<1>2. QED
  BY <1>1, AlwaysInv, PTL

(* The bookings never take more pieces than there are, though any number of   *)
(* quotes were given for the same ones (lockProposalSkus in createBooking's   *)
(* serializable transaction).                                                *)
THEOREM NothingOversold == Spec => []NeverOversold
<1>1. Inv => NeverOversold
  BY DEF Inv
<1>2. QED
  BY <1>1, AlwaysInv, PTL

(* Who is told of a booking is told of the one it asked for.                 *)
THEOREM AnswersAlwaysMatch == Spec => []AnswersMatch
<1>1. Inv => AnswersMatch
  BY DEF Inv
<1>2. QED
  BY <1>1, AlwaysInv, PTL

(* However many requests run at once, the plan's limit is exceeded by less    *)
(* than their number (enforcePlanLimit outside createBooking's transaction). *)
THEOREM OverrunAlwaysBounded == Spec => []LimitOverrunBounded
<1>1. Inv => LimitOverrunBounded
  BY DEF Inv
<1>2. QED
  BY <1>1, AlwaysInv, PTL

(* The plan's limit is kept when no request checks it while another that      *)
(* passed the check is still to book: requests overlapping there are the only *)
(* way to exceed it.                                                         *)
THEOREM LimitKeptOneAtATime == Spec /\ [][CheckedAlone]_vars => []WithinMonthlyLimit
<1> DEFINE Room == Cardinality(bookings) + Cardinality(AboutToBook) <= MaxOrders
<1>1. Init => Room
  <2>1. ASSUME Init
        PROVE  bookings = {} /\ AboutToBook = {}
    BY <2>1 DEF Init, NoRequest, AboutToBook
  <2>2. Cardinality({}) = 0 /\ MaxOrders \in Nat
    BY FS_EmptySet, CheckoutAssumption
  <2>3. ASSUME Init
        PROVE  Cardinality(bookings) = 0 /\ Cardinality(AboutToBook) = 0
    BY <2>1, <2>2, <2>3
  <2>4. QED
    BY <2>2, <2>3
<1>2. Inv /\ Room => WithinMonthlyLimit
  BY BookingCounts DEF Inv, WithinMonthlyLimit
<1>3. Inv /\ Room /\ [Next]_vars /\ [CheckedAlone]_vars => Room'
  BY NextWithinLimit DEF Inv
<1> HIDE DEF Room
<1>4. QED
  BY <1>1, <1>2, <1>3, AlwaysInv, PTL DEF Spec
(* A request is refused although its booking exists only if that booking was  *)
(* made while it was past its own replay check: a customer or form that       *)
(* retries once the first request has come to its end is answered with the   *)
(* booking.                                                                  *)
THEOREM RetryAnsweredApart == Spec /\ [][KeysApart]_vars => RetryGetsBooking
<1> DEFINE Heard(r) ==
             request[r].at # "answered" /\ request'[r].at = "answered" /\ request'[r].answer = {}
               => \A b \in WithKey(r) : ~SameRequest(r, b)
           P == \A r \in Requests : Heard(r)
<1>1. Init => NotMadeYet
  BY DEF Init, NotMadeYet, Checked, NoRequest
<1>2. TypeOK /\ NotMadeYet /\ [Next]_vars => P
  <2> SUFFICES ASSUME TypeOK, NotMadeYet, [Next]_vars, NEW r \in Requests,
                      request[r].at # "answered", request'[r].at = "answered",
                      request'[r].answer = {}
               PROVE  \A b \in WithKey(r) : ~SameRequest(r, b)
    OBVIOUS
  <2>1. /\ request \in [Requests -> RequestStates]
        /\ DOMAIN request[r] = {"at", "key", "quote", "items", "cart", "answer"}
        /\ bookings \subseteq BookingRows
    BY DEF TypeOK, RequestStates
  <2>2. CASE Replay(r)
    <3> DEFINE found == {b \in WithKey(r) : SameRequest(r, b)}
    <3>1. found \in SUBSET BookingRows /\ Answer(r, found)
      BY <2>1, <2>2 DEF Replay, WithKey
    <3> HIDE DEF found
    <3>2. request'[r] = Told(r, found)
      BY <3>1, Answered, WhereMoved DEF Told
    <3>3. found = {}
      BY <2>1, <3>2 DEF Told
    <3>4. QED
      BY <3>3 DEF found
  <2>3. CASE Checked(r)
    BY <2>3 DEF NotMadeYet
  <2>4. ~\E c \in Clients : Send(c, r) \/ Receive(c, r)
    <3>1. ASSUME NEW c \in Clients, Send(c, r)
          PROVE  FALSE
      <4>1. request'[r] = Sent(c)
        BY <2>1, <3>1 DEF Send, Sent
      <4>2. QED
        BY <4>1, WhereMoved
    <3>2. ASSUME NEW c \in Clients, Receive(c, r)
          PROVE  FALSE
      BY <2>1, <3>2 DEF Receive, NoRequest
    <3>3. QED
      BY <3>1, <3>2
  <2>5. QED
    BY <2>2, <2>3, <2>4, OwnSteps DEF CheckKey, CheckLimit, BookMeetsTwin, BookRefused, Book, Checked
<1> HIDE DEF P
<1>3. Inv => TypeOK
  BY DEF Inv
<1>4. NotMadeYet /\ TypeOK /\ [Next]_vars => [P]_vars
  BY <1>2
<1>5. QED
  BY <1>1, <1>3, <1>4, NextNotMadeYet, AlwaysInv, PTL DEF Spec, RetryGetsBooking, P
===============================================================================
