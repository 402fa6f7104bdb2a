-------------------------- MODULE ServerMapRounds --------------------------
(***************************************************************************)
(* What the update of the API server configuration promises, whatever its  *)
(* locks, counters and messages are (apiserverupdate/update.go): server    *)
(* maps come into force one after the other, every client takes each of    *)
(* them over, and the reflectors are told to reconnect, and the next map   *)
(* let in, when and only when all clients have.                            *)
(***************************************************************************)
EXTENDS Naturals

CONSTANTS
  Servers,   \* load balancers of service groups
  Clients    \* typed clients

VARIABLES
  inForce,   \* the server map
  using,     \* the map each client uses
  open,      \* a map was let in that some client may not use yet
  resets     \* how often the reflectors were told

vars == <<inForce, using, open, resets>>

Init ==
  /\ inForce = {} /\ using = [k \in Clients |-> {}]
  /\ open = FALSE /\ resets = 0

LetIn ==
  /\ ~open /\ open' = TRUE
  /\ \E m \in (SUBSET Servers) \ {{}, inForce} : inForce' = m
  /\ UNCHANGED <<using, resets>>

TakeOver(k) ==
  /\ open /\ using' = [using EXCEPT ![k] = inForce]
  /\ UNCHANGED <<inForce, open, resets>>

Reset ==
  /\ open /\ \A k \in Clients : using[k] = inForce
  /\ open' = FALSE /\ resets' = resets + 1
  /\ UNCHANGED <<inForce, using>>

Next == LetIn \/ Reset \/ \E k \in Clients : TakeOver(k)

Spec == Init /\ [][Next]_vars

=============================================================================
