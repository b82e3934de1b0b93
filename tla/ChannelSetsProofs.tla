-------------------------- MODULE ChannelSetsProofs --------------------------
(* What the abstract specification of channels is for.                     *)
EXTENDS ChannelSets, TLAPS

LEMMA StepClosed == AllClosed /\ [Next]_sets => AllClosed'
<1> SUFFICES ASSUME AllClosed, [Next]_sets PROVE AllClosed'
  OBVIOUS
<1> USE DEF AllClosed, Closed
<1>1. CASE UNCHANGED sets
  BY <1>1
<1>2. ASSUME NEW n \in Name, Create(n) PROVE AllClosed'
  BY <1>2 DEF Create, Becomes
<1>3. ASSUME NEW n \in Name, Drop(n) PROVE AllClosed'
  BY <1>3 DEF Drop
<1>4. ASSUME NEW n \in Name, NEW h \in Hash, Apply(n, h) PROVE AllClosed'
  BY <1>4 DEF Apply, Becomes
<1>5. ASSUME NEW n \in Name, NEW h \in Hash, Unrecord(n, h) PROVE AllClosed'
  BY <1>5 DEF Unrecord, Becomes
<1>6. ASSUME NEW n \in Name, NEW m \in Name, Copy(n, m) PROVE AllClosed'
  BY <1>6 DEF Copy, Becomes
<1>7. ASSUME NEW n \in Name, NEW m \in Name, Rename(n, m) PROVE AllClosed'
  BY <1>7 DEF Rename
<1> QED BY <1>1, <1>2, <1>3, <1>4, <1>5, <1>6, <1>7 DEF Next

(* A channel never holds a change without the dependencies of the change:  *)
(* what every implementation of this specification, among them Pristine as *)
(* long as no last copy is dropped, gives its users.                       *)
THEOREM ChannelsClosed == Spec => []AllClosed
<1>1. Init => AllClosed
  BY DEF Init, AllClosed
<1> QED BY <1>1, StepClosed, PTL DEF Spec
=============================================================================
