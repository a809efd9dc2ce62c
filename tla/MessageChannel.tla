--------------------------- MODULE MessageChannel ---------------------------
(***************************************************************************)
(* What the runtime expects of one notification queue: a first-in          *)
(* first-out mailbox written by many threads and read by its owner.  The   *)
(* k-th item of thread t is the pair <<t, k>>, so that an item lost,       *)
(* duplicated or overtaken by a later item of the same thread is visible.  *)
(***************************************************************************)
EXTENDS Naturals, Sequences

CONSTANT Threads

VARIABLES chan,      \* items sent and not yet delivered, oldest first
          delivered, \* items delivered to the owner, oldest first
          sent       \* sent[t]: how many items thread t has sent

vars == <<chan, delivered, sent>>

Init ==
  /\ chan = <<>>
  /\ delivered = <<>>
  /\ sent = [t \in Threads |-> 0]

Send(t) ==
  /\ sent' = [sent EXCEPT ![t] = @ + 1]
  /\ chan' = Append(chan, <<t, sent[t] + 1>>)
  /\ UNCHANGED delivered

Deliver ==
  /\ chan # <<>>
  /\ delivered' = Append(delivered, Head(chan))
  /\ chan' = Tail(chan)
  /\ UNCHANGED sent

Next == Deliver \/ \E t \in Threads : Send(t)

Spec == Init /\ [][Next]_vars
=============================================================================
