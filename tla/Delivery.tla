------------------------------ MODULE Delivery ------------------------------
(***************************************************************************)
(* What publishing promises, whatever fails: at-least-once delivery.  A    *)
(* known offer that is not recorded may be asked for, again and again; a   *)
(* request is posted once or never; an offer is recorded only after it was *)
(* posted, and stays recorded and is asked for no more.                    *)
(***************************************************************************)
EXTENDS Naturals

CONSTANT Offers

VARIABLES
  known,    \* offers that exist
  asked,    \* per offer: requests the channel may still post
  posted,   \* per offer: messages in the channel
  recorded  \* offers known to be posted

vars == <<known, asked, posted, recorded>>

Init ==
  /\ known \in SUBSET Offers
  /\ asked = [o \in Offers |-> 0]
  /\ posted = [o \in Offers |-> 0]
  /\ recorded = {}

Learn ==
  /\ \E more \in SUBSET Offers : known' = known \cup more
  /\ UNCHANGED <<asked, posted, recorded>>

Ask(o) ==
  /\ o \in known \ recorded
  /\ asked' = [asked EXCEPT ![o] = @ + 1]
  /\ UNCHANGED <<known, posted, recorded>>

Post(o) ==
  /\ asked[o] > 0
  /\ asked' = [asked EXCEPT ![o] = @ - 1]
  /\ posted' = [posted EXCEPT ![o] = @ + 1]
  /\ UNCHANGED <<known, recorded>>

Refuse(o) ==
  /\ asked[o] > 0
  /\ asked' = [asked EXCEPT ![o] = @ - 1]
  /\ UNCHANGED <<known, posted, recorded>>

Record(o) ==
  /\ o \in known
  /\ posted[o] > 0
  /\ recorded' = recorded \cup {o}
  /\ UNCHANGED <<known, asked, posted>>

Next ==
  \/ Learn
  \/ \E o \in Offers : Ask(o) \/ Post(o) \/ Refuse(o) \/ Record(o)

Spec == Init /\ [][Next]_vars
=============================================================================
