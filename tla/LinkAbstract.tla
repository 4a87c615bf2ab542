---------------------------- MODULE LinkAbstract ----------------------------
(***************************************************************************)
(* What the e1000 link tracking promises the network stack, with no        *)
(* registers and no interrupt: the link goes up and down, each change      *)
(* leaves the stack owed a notification, and a notification tells the      *)
(* stack the link as it is at that moment, settling what was owed. Several *)
(* changes may be settled by one notification.                             *)
(***************************************************************************)
VARIABLES link,     \* the physical link
          owed,     \* a change the stack has not been told of
          carrier   \* what the stack was last told

avars == <<link, owed, carrier>>

Init == link = FALSE /\ owed = FALSE /\ carrier = FALSE

Change ==
    /\ link' = ~link
    /\ owed' = TRUE
    /\ UNCHANGED carrier

Notify ==
    /\ owed
    /\ owed' = FALSE
    /\ carrier' = link
    /\ UNCHANGED link

Spec == Init /\ [][Change \/ Notify]_avars

=============================================================================
