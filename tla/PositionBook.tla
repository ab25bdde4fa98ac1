---------------------------- MODULE PositionBook ----------------------------
(***************************************************************************)
(* What the position lifecycle promises, without its threads, orders, stops *)
(* and crashes: a book of trades against what the broker holds.  One        *)
(* position at a time is bought, then recorded, reduced by whoever sells,   *)
(* and closed in the book once it is gone; a closed trade stays closed.     *)
(* PositionManager implements it (its RefinesBook).                         *)
(***************************************************************************)
EXTENDS Integers

CONSTANTS
  Trades,   \* the entry signals
  Units     \* the most an entry buys

VARIABLES
  bought,   \* the units each entry bought
  held,     \* those the broker still holds
  row       \* the trade's row: "none", "open" or "closed"

vars == <<bought, held, row>>

Init ==
  /\ bought = [n \in Trades |-> 0]
  /\ held = [n \in Trades |-> 0]
  /\ row = [n \in Trades |-> "none"]

(* "One position at a time, ever": nothing is bought while anything is held,   *)
(* whatever the book says.                                                    *)
Buy(n) ==
  /\ \A m \in Trades : held[m] = 0
  /\ bought[n] = 0 /\ row[n] = "none"
  /\ \E q \in 1..Units :
       /\ bought' = [bought EXCEPT ![n] = q]
       /\ held' = [held EXCEPT ![n] = q]
  /\ UNCHANGED row

(* What was bought is recorded; it may have been sold again by then.           *)
Record(n) ==
  /\ bought[n] > 0 /\ row[n] = "none"
  /\ row' = [row EXCEPT ![n] = "open"]
  /\ UNCHANGED <<bought, held>>

Reduce(n) ==
  /\ \E q \in 0..(held[n] - 1) : held' = [held EXCEPT ![n] = q]
  /\ UNCHANGED <<bought, row>>

Close(n) ==
  /\ row[n] = "open" /\ held[n] = 0
  /\ row' = [row EXCEPT ![n] = "closed"]
  /\ UNCHANGED <<bought, held>>

Next == \E n \in Trades : Buy(n) \/ Record(n) \/ Reduce(n) \/ Close(n)

Spec == Init /\ [][Next]_vars

=============================================================================
