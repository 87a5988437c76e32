--------------------------- MODULE OrderFlowClaims ---------------------------
(***************************************************************************)
(* What the documents and headers of the repository say of an order's way  *)
(* through the engine, where the code does something else.  Each of these  *)
(* is refuted by a configuration of its own; none is used by a proof.      *)
(***************************************************************************)
EXTENDS OrderFlow

\* docs/Architecture.md:584, a send with unknown result keeps the reservation
\* and the venue is asked first.  The EMS worker releases it on every result
\* other than success.
UnknownSendKeepsReservation ==
  \A id \in OrderIds :
    orders[id].state = "SendUnknown" => reservation[id] = "reserved"

\* oms/order_api.hpp:28, Working means the channel has taken the order.  A
\* cancellation that overtakes its order in the queue is refused by the venue,
\* and RecordCancelResult then makes an order Working that is never sent.
WorkingMeansTaken ==
  \A id \in OrderIds : orders[id].state = "Working" => sends[id] # <<>>

\* docs/Architecture.md:274, an acknowledgement takes SendUnknown to Acked.
\* LifecycleFromOrderStatus keeps the current state for a queued order, so no
\* report of that kind ever leaves SendUnknown.
AcknowledgementResolvesUnknown ==
  [][\A id \in OrderIds :
       /\ handler = <<>> /\ handler' # <<>>
       /\ handler'[1].kind = "order" /\ LocalOrder(handler'[1].report) = id
       => orders'[id].state # "SendUnknown"]_vars

\* docs/Architecture.md:280, an order that lapses at the venue takes the venue's
\* outcome from any state that is not final.  From SendPending the automaton
\* has no way to Canceled and the whole report is dropped.
LapsedOrderIsClosed ==
  [][\A id \in OrderIds :
       /\ handler = <<>> /\ handler' # <<>>
       /\ handler'[1].kind = "order" /\ LocalOrder(handler'[1].report) = id
       /\ handler'[1].report.status = "Canceled"
       => orders'[id].state \in Terminal]_vars

\* docs/Architecture.md:581, when nothing was sent the reservation is released
\* once the venue is known not to have the order.  A Submit that finds its new
\* order already being canceled returns success and keeps the reservation.
UnsentIsReleased ==
  Quiet => \A id \in OrderIds :
    Present(id) /\ sends[id] = <<>> => reservation[id] # "reserved"
=============================================================================
