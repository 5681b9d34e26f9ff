---------------------------- MODULE PaymentLedger ----------------------------
(* What payment settlement promises, whatever workers, statements, repeats    *)
(* and failures it takes: a reported transaction is recorded before anything  *)
(* else comes of it and told of once; an invoice is settled, and then its     *)
(* payment link closed, only for a recorded transaction that pays the link in *)
(* full; and nobody is told of a payment that is not settled.                 *)
EXTENDS Integers

CONSTANTS Transfers, Sources, Refs, Invoices

VARIABLES
  brings,   \* the reference and the amount of each transfer
  bills,    \* the payment links: what is asked for, under which reference
  book,     \* how far each transfer has got, as each source reports it
  settled,  \* the paid invoices
  paid      \* the closed links

vars == <<brings, bills, book, settled, paid>>

Init ==
  /\ brings \in [Transfers -> [ref : Refs, amount : Nat]]
  /\ bills \subseteq [ref : Refs, invoice : Invoices, amount : Nat]
  /\ \A a, b \in bills : a.ref = b.ref => a = b
  /\ book = [t \in Transfers |-> [s \in Sources |-> "new"]]
  /\ settled = {} /\ paid = {}

Covers(t, b) == brings[t].ref = b.ref /\ brings[t].amount >= b.amount

Received(b) ==
  \E t \in Transfers, s \in Sources : book[t][s] = "recorded" /\ Covers(t, b)

Record(t, s) ==
  /\ book[t][s] = "new" /\ book' = [book EXCEPT ![t][s] = "recorded"]
  /\ UNCHANGED <<brings, bills, settled, paid>>

Settle(b) ==
  /\ Received(b) /\ settled' = settled \cup {b.invoice}
  /\ UNCHANGED <<brings, bills, book, paid>>

Close(b) ==
  /\ Received(b) /\ b.invoice \in settled /\ paid' = paid \cup {b}
  /\ UNCHANGED <<brings, bills, book, settled>>

\* The link may be gone by then.
Tell(t, s) ==
  /\ book[t][s] = "recorded" /\ book' = [book EXCEPT ![t][s] = "told"]
  /\ \A b \in bills : b.ref = brings[t].ref => Covers(t, b) /\ b.invoice \in settled
  /\ UNCHANGED <<brings, bills, settled, paid>>

\* An invoice is deleted, and its links with it.
Cancel(i) ==
  /\ bills' = {b \in bills : b.invoice # i} /\ paid' = {b \in paid : b.invoice # i}
  /\ settled' = settled \ {i}
  /\ UNCHANGED <<brings, book>>

Next ==
  \/ \E t \in Transfers, s \in Sources : Record(t, s) \/ Tell(t, s)
  \/ \E b \in bills : Settle(b) \/ Close(b)
  \/ \E i \in Invoices : Cancel(i)

Spec == Init /\ [][Next]_vars
=============================================================================
