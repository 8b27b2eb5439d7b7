------------------------------- MODULE MapLease -------------------------------
(***************************************************************************)
(* What the stop handshake is for, without its flags: the map has one      *)
(* regular writer, local mapping, and a borrower, loop closing.  The       *)
(* borrower asks, is granted the map only between two pieces of the        *)
(* writer's work, and the writer starts nothing until the map is given     *)
(* back.                                                                   *)
(***************************************************************************)
VARIABLES
  mapping,  \* local mapping is at work on the map
  lease     \* "none", "asked" or "granted" to loop closing

leaseVars == <<mapping, lease>>

LeaseTypeOK == mapping \in BOOLEAN /\ lease \in {"none", "asked", "granted"}

LeaseInit == mapping = FALSE /\ lease = "none"

StartWork == ~mapping /\ lease # "granted" /\ mapping' = TRUE /\ UNCHANGED lease
EndWork   == mapping /\ mapping' = FALSE /\ UNCHANGED lease
Ask       == lease = "none" /\ lease' = "asked" /\ UNCHANGED mapping
Grant     == lease = "asked" /\ ~mapping /\ lease' = "granted" /\ UNCHANGED mapping
GiveBack  == lease = "granted" /\ lease' = "none" /\ UNCHANGED mapping

LeaseNext == StartWork \/ EndWork \/ Ask \/ Grant \/ GiveBack
LeaseSpec == LeaseInit /\ [][LeaseNext]_leaseVars

\* The borrower and the writer are never on the map together.
LeaseExclusive == lease = "granted" => ~mapping
=============================================================================
