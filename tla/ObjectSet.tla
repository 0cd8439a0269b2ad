----------------------------- MODULE ObjectSet -----------------------------
(***************************************************************************)
(* What the object store promises to uploads and to pushes, without files, *)
(* names or calls: a set of objects, to which one is added whole and in    *)
(* one step, and from which nothing is taken but by a loss of power, and   *)
(* then nothing that was made lasting.                                     *)
(***************************************************************************)
CONSTANT Hash

VARIABLES
  present,   \* the objects that are there, each of them complete
  lasting,   \* those that no loss of power can take away
  refs,      \* those that accepted commits refer to
  dark       \* whether power was ever lost

setVars == <<present, lasting, refs, dark>>

SetInit == present = {} /\ lasting = {} /\ refs = {} /\ dark = FALSE

Put(h) ==
  /\ h \notin present
  /\ present' = present \cup {h}
  /\ UNCHANGED <<lasting, refs, dark>>

Secure(h) ==
  /\ h \in present
  /\ lasting' = lasting \cup {h}
  /\ UNCHANGED <<present, refs, dark>>

\* An accepted commit refers only to what is there.
ReferTo(hs) ==
  /\ hs \subseteq present
  /\ refs' = refs \cup hs
  /\ UNCHANGED <<present, lasting, dark>>

Lose ==
  /\ \E gone \in SUBSET (present \ lasting) : present' = present \ gone
  /\ dark' = TRUE
  /\ UNCHANGED <<lasting, refs>>

SetNext ==
  \/ \E h \in Hash : Put(h) \/ Secure(h)
  \/ \E hs \in SUBSET Hash : ReferTo(hs)
  \/ Lose

SetSpec == SetInit /\ [][SetNext]_setVars
=============================================================================
