--------------------------- MODULE PaymentLedger ---------------------------
(***************************************************************************)
(* What the wallet promises an application about its payments, one per     *)
(* clientRequestId, however often and over however many connections it     *)
(* asks: a payment is claimed once, its transaction is handed to the       *)
(* network at most once, "not_signed" means never, "accepted" means that   *)
(* it was, and a final status is kept (the types and transitions of        *)
(* CONNECT_PAYMENT_STATUS_TRANSITIONS in protocolService.ts).              *)
(* ConnectRequests implements it (ConnectRequests!PaymentsSpec).           *)
(***************************************************************************)
EXTENDS Naturals

CONSTANT Keys   \* the payments, by clientRequestId

VARIABLES
    status,     \* [Keys -> the recorded status; "none": not claimed]
    posts       \* [Keys -> how often a transaction went to the network]

Open == {"pending", "signed_not_dispatched", "unknown"}
Final == {"not_signed", "failed", "accepted"}

\* The later statuses that an open status may be replaced by.
Successors(s) ==
    CASE s = "pending"               -> {"signed_not_dispatched", "unknown"} \cup Final
      [] s = "signed_not_dispatched" -> {"unknown", "failed", "accepted"}
      [] s = "unknown"               -> Final
      [] OTHER                       -> {}

LedgerInit ==
    /\ status = [k \in Keys |-> "none"]
    /\ posts = [k \in Keys |-> 0]

Claim(k) ==
    /\ status[k] = "none"
    /\ status' = [status EXCEPT ![k] = "pending"]
    /\ UNCHANGED posts

Post(k) ==
    /\ status[k] \in Open
    /\ posts[k] = 0
    /\ posts' = [posts EXCEPT ![k] = 1]
    /\ UNCHANGED status

Record(k, s) ==
    /\ s \in Successors(status[k])
    /\ s = "not_signed" => posts[k] = 0
    /\ s = "accepted" => posts[k] = 1
    /\ status' = [status EXCEPT ![k] = s]
    /\ UNCHANGED posts

LedgerNext ==
    \E k \in Keys : Claim(k) \/ Post(k) \/ (\E s \in Open \cup Final : Record(k, s))

LedgerSpec == LedgerInit /\ [][LedgerNext]_<<status, posts>>
=============================================================================
