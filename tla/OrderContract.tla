----------------------------- MODULE OrderContract -----------------------------
(***************************************************************************)
(* What the order manager promises its callers about one session, with no  *)
(* word of its tables, statuses or reports: every identifier has one life. *)
(* It enters once, for a client that has no order yet; it leaves "pending" *)
(* once, when the EMS sends it; and it ends once.  A strategy may rely on  *)
(* the idempotence, the EMS on "pending" never coming back, the account    *)
(* risk service on "final" staying final.  OrderManager implements it.     *)
(***************************************************************************)
CONSTANTS
  Ids,       \* identifiers of orders
  Clients,   \* client_order_id values
  NoClient   \* an order that no strategy of ours owns

VARIABLES
  open,      \* a session is open
  life,      \* none, pending (not sent), live (sent, or so it must be taken), final
  owner      \* client of each order

contractVars == <<open, life, owner>>

Nobody ==
  /\ life = [id \in Ids |-> "none"]
  /\ owner = [id \in Ids |-> NoClient]

ContractInit == ~open /\ open \in BOOLEAN /\ Nobody

Session ==
  /\ open' \in BOOLEAN
  /\ ~(open /\ open')
  /\ Nobody'

\* A strategy's order is created, an order of the venue is adopted in any life.
Enter(id) ==
  /\ open /\ life[id] = "none"
  /\ \E l \in {"pending", "live", "final"} : life' = [life EXCEPT ![id] = l]
  /\ \E c \in Clients \cup {NoClient} :
       /\ owner' = [owner EXCEPT ![id] = c]
       /\ c # NoClient => \A i \in Ids : owner[i] # c
  /\ UNCHANGED open

Moves(id, from, to) ==
  /\ life[id] \in from
  /\ life' = [life EXCEPT ![id] = to]
  /\ UNCHANGED <<open, owner>>

Send(id)   == Moves(id, {"pending"}, "live")
Finish(id) == Moves(id, {"pending", "live"}, "final")

ContractNext ==
  \/ Session
  \/ \E id \in Ids : Enter(id) \/ Send(id) \/ Finish(id)

ContractSpec == ContractInit /\ [][ContractNext]_contractVars
=============================================================================
