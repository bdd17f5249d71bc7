------------------------------ MODULE Billing ------------------------------
(***************************************************************************)
(* One account and its Stripe subscriptions: checkout, the webhook that    *)
(* copies what Stripe tells onto the users row (app/api/routes/billing.py) *)
(* and the deletion of the account (app/api/routes/dashboard.py).          *)
(*                                                                         *)
(* Stripe keeps the truth and emits events; it repeats an event until the  *)
(* webhook answers, and does not promise an order.  What the webhook does  *)
(* to trial and monitors when the plan changes is module Trial.            *)
(***************************************************************************)
EXTENDS Naturals, SequencesExt

CONSTANTS
  Sub,        \* subscriptions Stripe may create
  Buyer,      \* checkout requests that may be under way at once
  Handler,    \* deliveries that may be under way at once
  NoSub,      \* stripe_subscription_id is NULL
  MaxEvents,  \* bound: Stripe changes nothing with more events outstanding
  Races       \* events come out of order, requests overlap and the user starts
              \* a second checkout

BillingAssumption ==
  /\ NoSub \notin Sub /\ MaxEvents \in Nat /\ Races \in BOOLEAN
  /\ IsFiniteSet(Sub) /\ IsFiniteSet(Buyer)

Paid == {"STARTER", "PRO"}

VARIABLES
  sub,        \* the subscriptions at Stripe; "page" is an unpaid checkout page
  events,     \* emitted and not yet answered with success, oldest first
  row,        \* the users row
  buyer,      \* the checkout requests
  handler,    \* the webhook's deliveries
  deletion    \* POST /account/delete

vars == <<sub, events, row, buyer, handler, deletion>>

Row == [gone     : BOOLEAN,
        customer : 0..Cardinality(Buyer),      \* 0: NULL
        sub      : Sub \cup {NoSub},
        status   : {"none", "incomplete", "active", "past_due", "unpaid", "canceled"},
        plan     : {"FREE"} \cup Paid]

IdleBuyer == [pc |-> "idle", plan |-> "PRO", customer |-> 0]

NewRow == [gone |-> FALSE, customer |-> 0, sub |-> NoSub, status |-> "none", plan |-> "FREE"]

NoEvent == [type |-> "none", sub |-> NoSub, status |-> "none", plan |-> "FREE"]

IdleHandler == [busy |-> FALSE, event |-> NoEvent, row |-> NewRow]

Live(s) == sub[s].state \in {"active", "past_due", "unpaid"}

Busy == \E h \in Handler : handler[h].busy

NoBuyer == \A b \in Buyer : buyer[b].pc = "idle"

NoPage == \A s \in Sub : sub[s].state # "page"

-----------------------------------------------------------------------------
(* The user at the site: checkout, and deleting the account.               *)

\* Nobody asks whether there is a subscription already.
BeginCheckout(b, plan) ==
  /\ buyer[b].pc = "idle" /\ ~row.gone
  /\ buyer' = [buyer EXCEPT ![b] = [pc |-> "loaded", plan |-> plan, customer |-> row.customer]]
  /\ Races \/ (NoBuyer /\ NoPage /\ deletion.pc = "idle" /\ \A s \in Sub : ~Live(s))
  /\ UNCHANGED <<sub, events, row, handler, deletion>>

\* _ensure_stripe_customer makes and commits a customer if none was loaded.
OpenPage(b) ==
  LET used == {row.customer} \cup {sub[s].customer : s \in Sub}
      customer == IF buyer[b].customer # 0 THEN buyer[b].customer
                  ELSE CHOOSE c \in 1..Cardinality(Buyer) + Cardinality(Sub) : c \notin used
  IN  /\ buyer[b].pc = "loaded" /\ ~row.gone
      /\ \E s \in Sub :
           /\ sub[s].state = "unused"
           /\ sub' = [sub EXCEPT ![s] = [state |-> "page", plan |-> buyer[b].plan,
                                         customer |-> customer]]
      /\ row' = IF buyer[b].customer = 0 THEN [row EXCEPT !.customer = customer] ELSE row
      /\ buyer' = [buyer EXCEPT ![b] = IdleBuyer]
      /\ UNCHANGED <<events, handler, deletion>>

AbortCheckout(b) ==
  /\ buyer[b].pc # "idle"
  /\ buyer' = [buyer EXCEPT ![b] = IdleBuyer]
  /\ UNCHANGED <<sub, events, row, handler, deletion>>

BeginDelete ==
  /\ deletion.pc = "idle" /\ ~row.gone
  /\ deletion' = [pc |-> "loaded", sub |-> row.sub]
  /\ Races \/ (NoBuyer /\ NoPage /\ events = <<>> /\ ~Busy)
  /\ UNCHANGED <<sub, events, row, buyer, handler>>

Emit(new) == events' = events \o new

Event(type, s, status, plan) == [type |-> type, sub |-> s, status |-> status, plan |-> plan]

\* One that is gone at Stripe already is as good as cancelled.
CancelAtStripe ==
  /\ deletion.pc = "loaded"
  /\ LET s == deletion.sub
     IN  IF s # NoSub /\ Live(s)
         THEN /\ sub' = [sub EXCEPT ![s].state = "canceled"]
              /\ Emit(<<Event("deleted", s, "canceled", sub[s].plan)>>)
         ELSE UNCHANGED <<sub, events>>
  /\ deletion' = [deletion EXCEPT !.pc = "cancelled"]
  /\ UNCHANGED <<row, buyer, handler>>

\* Bug: an error from Stripe is logged and forgotten.
CommitDelete_IgnoreStripe ==
  /\ deletion.pc \in {"loaded", "cancelled"}
  /\ row' = [row EXCEPT !.gone = TRUE]
  /\ deletion' = [pc |-> "idle", sub |-> NoSub]
  /\ UNCHANGED <<sub, events, buyer, handler>>

CommitDelete ==
  /\ deletion.pc = "cancelled"
  /\ row' = [row EXCEPT !.gone = TRUE]
  /\ deletion' = [pc |-> "idle", sub |-> NoSub]
  /\ UNCHANGED <<sub, events, buyer, handler>>

\* Stripe cannot be reached, or a crash: the user may try again.
AbortDelete ==
  /\ deletion.pc # "idle"
  /\ deletion' = [pc |-> "idle", sub |-> NoSub]
  /\ UNCHANGED <<sub, events, row, buyer, handler>>

-----------------------------------------------------------------------------
(* Stripe, and the user at Stripe's pages.                                 *)

\* The page is paid.
Pay(s) ==
  /\ sub[s].state = "page" /\ Len(events) <= MaxEvents
  /\ sub' = [sub EXCEPT ![s].state = "active"]
  /\ Emit(<<Event("updated", s, "incomplete", sub[s].plan),
            Event("updated", s, "active", sub[s].plan),
            Event("completed", s, "active", sub[s].plan)>>)
  /\ UNCHANGED <<row, buyer, handler, deletion>>

Abandon(s) ==
  /\ sub[s].state = "page"
  /\ sub' = [sub EXCEPT ![s].state = "canceled"]
  /\ UNCHANGED <<events, row, buyer, handler, deletion>>

\* A charge fails, in the end for good, or succeeds again; the portal changes
\* the plan.
Change(s, state, plan) ==
  /\ Live(s) /\ Len(events) <= MaxEvents
  /\ <<sub[s].state, state>> \in {<<"active", "past_due">>, <<"past_due", "unpaid">>,
       <<"active", "active">>, <<"past_due", "active">>, <<"unpaid", "active">>}
  /\ plan # sub[s].plan => sub[s].state = "active" /\ state = "active"
  /\ sub' = [sub EXCEPT ![s].state = state, ![s].plan = plan]
  /\ sub' # sub
  /\ Emit(<<Event("updated", s, state, plan)>>
          \o IF state = "past_due" THEN <<Event("payment_failed", s, state, plan)>> ELSE <<>>)
  /\ UNCHANGED <<row, buyer, handler, deletion>>

\* Cancelled in the portal, or given up by Stripe.
Cancel(s) ==
  /\ Live(s) /\ Len(events) <= MaxEvents
  /\ sub' = [sub EXCEPT ![s].state = "canceled"]
  /\ Emit(<<Event("deleted", s, "canceled", sub[s].plan)>>)
  /\ UNCHANGED <<row, buyer, handler, deletion>>

-----------------------------------------------------------------------------
(* The webhook.                                                            *)

\* The user is found by the id in the metadata, or by customer.
Known(e) == ~row.gone /\ (e.type = "completed" \/ row.customer = sub[e.sub].customer)

\* Any outstanding event is delivered; for an unknown user it is ignored.
Receive(h, i) ==
  /\ ~handler[h].busy /\ i \in DOMAIN events
  /\ IF Known(events[i])
     THEN /\ handler' = [handler EXCEPT ![h] = [busy |-> TRUE, event |-> events[i], row |-> row]]
          /\ UNCHANGED events
     ELSE /\ events' = RemoveAt(events, i)
          /\ UNCHANGED handler
  /\ Races \/ (i = 1 /\ ~Busy /\ deletion.pc = "idle")
  /\ UNCHANGED <<sub, row, buyer, deletion>>

\* _apply_subscription_to_user, on the row as loaded.
Applied(r, s, status, plan) ==
  [r EXCEPT
     !.sub = s,
     !.status = IF status = "incomplete" /\ r.status = "active" THEN @ ELSE status,
     !.plan = CASE status = "active"               -> plan
                [] status \in {"canceled", "unpaid"} -> "FREE"
                [] OTHER                           -> @]

\* Bug: a cancelled subscription keeps its plan.
Handled_KeepPlan(r, e) ==
  CASE e.type = "completed"      -> Applied(r, e.sub, sub[e.sub].state, sub[e.sub].plan)
    [] e.type = "updated"        -> Applied(r, e.sub, e.status, e.plan)
    [] e.type = "deleted"        -> [r EXCEPT !.status = "canceled", !.sub = NoSub]
    [] e.type = "payment_failed" -> [r EXCEPT !.status = "past_due"]

\* The loaded row once the event is handled; after a checkout the subscription
\* is read from Stripe as it is now.
Handled(r, e) ==
  CASE e.type = "completed"      -> Applied(r, e.sub, sub[e.sub].state, sub[e.sub].plan)
    [] e.type = "updated"        -> Applied(r, e.sub, e.status, e.plan)
    [] e.type = "deleted"        -> [r EXCEPT !.status = "canceled", !.sub = NoSub, !.plan = "FREE"]
    [] e.type = "payment_failed" -> [r EXCEPT !.status = "past_due"]

\* The columns that differ from what was loaded are written.
Written(loaded, new) ==
  [row EXCEPT !.sub = IF new.sub # loaded.sub THEN new.sub ELSE @,
              !.status = IF new.status # loaded.status THEN new.status ELSE @,
              !.plan = IF new.plan # loaded.plan THEN new.plan ELSE @]

\* The answer may be lost: then the event stays.
CommitEvent(h) ==
  LET e == handler[h].event
  IN  /\ handler[h].busy /\ ~row.gone
      /\ row' = Written(handler[h].row, Handled(handler[h].row, e))
      /\ events' \in {events, RemoveFirst(events, e)}
      /\ handler' = [handler EXCEPT ![h] = IdleHandler]
      /\ UNCHANGED <<sub, buyer, deletion>>

\* An exception: Stripe delivers the event again.
AbortEvent(h) ==
  /\ handler[h].busy
  /\ handler' = [handler EXCEPT ![h] = IdleHandler]
  /\ UNCHANGED <<sub, events, row, buyer, deletion>>

-----------------------------------------------------------------------------

Init ==
  /\ sub = [s \in Sub |-> [state |-> "unused", plan |-> "PRO", customer |-> 0]]
  /\ events = <<>>
  /\ row = NewRow
  /\ buyer = [b \in Buyer |-> IdleBuyer]
  /\ handler = [h \in Handler |-> IdleHandler]
  /\ deletion = [pc |-> "idle", sub |-> NoSub]

Next ==
  \/ \E b \in Buyer : (\E plan \in Paid : BeginCheckout(b, plan)) \/ OpenPage(b) \/ AbortCheckout(b)
  \/ BeginDelete \/ CancelAtStripe \/ CommitDelete \/ AbortDelete
  \/ \E s \in Sub :
       \/ Pay(s) \/ Abandon(s) \/ Cancel(s)
       \/ \E state \in {"active", "past_due", "unpaid"}, plan \in Paid : Change(s, state, plan)
  \/ \E h \in Handler : (\E i \in DOMAIN events : Receive(h, i)) \/ CommitEvent(h) \/ AbortEvent(h)

Spec == Init /\ [][Next]_vars

-----------------------------------------------------------------------------

\* What the account should be on.
PlanAtStripe ==
  {sub[s].plan : s \in {t \in Sub : sub[t].state \in {"active", "past_due"}}}

\* "Keep user plan state in sync" (billing.py's webhook): with all events
\* answered the account is on the plan it pays for, and on Free otherwise.
InSync ==
  events = <<>> /\ ~Busy /\ ~row.gone
  => row.plan \in (IF PlanAtStripe = {} THEN {"FREE"} ELSE PlanAtStripe)

\* account_delete's docstring: no phantom account is billed on.  Nothing is paid
\* for an account that is gone.
NoPhantom == row.gone => \A s \in Sub : ~Live(s)
=============================================================================
