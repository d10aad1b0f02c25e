-------------------------- MODULE MCWebhookIntake --------------------------
(* Small instances of WebhookIntake for TLC. *)
EXTENDS WebhookProperties

\* Two failures and a capture of one payment, and the link paid that the first
\* failure led to.
ShopKind == [f1 |-> "payment.failed", f2 |-> "payment.failed",
             c1 |-> "payment.captured", l1 |-> "payment_link.paid"]
ShopSubject == [f1 |-> {"p1"}, f2 |-> {"p1"}, c1 |-> {"p1"}, l1 |-> {}]
ShopReference == [l1 |-> "f1"]
Prices == [p1 |-> 2, p2 |-> 3]
OneCustomer == [p1 |-> "ann", p2 |-> "ann"]

\* Failures of both payments of an order, the capture of one, the order.paid,
\* the link paid that the first failure led to, and an event of no interest; the
\* payer of the second payment is unknown, and in the control group.
OrderKind == [f1 |-> "payment.failed", f2 |-> "payment.failed",
              c1 |-> "payment.captured", o1 |-> "order.paid",
              l1 |-> "payment_link.paid", x1 |-> "other"]
OrderSubject == [f1 |-> {"p1"}, f2 |-> {"p2"}, c1 |-> {"p1"},
                 o1 |-> {"p1", "p2"}, l1 |-> {}, x1 |-> {}]
UnknownPayer == [p1 |-> "ann", p2 |-> "nobody"]
Hashes == [ann |-> 50, p1 |-> 0, p2 |-> 49]

\* Failures of two payments of one customer.
TwoFailures == [f1 |-> "payment.failed", f2 |-> "payment.failed"]
TwoPayments == [f1 |-> {"p1"}, f2 |-> {"p2"}]
=============================================================================
