------------------------------ MODULE KeyedMutex ------------------------------
(***************************************************************************)
(* What the lock plugin promises: per key, one caller inside at a time and *)
(* the others let in by order of arrival, unless they give up.  Once the   *)
(* lock is torn down it promises nothing.                                  *)
(***************************************************************************)
EXTENDS Subsequences

CONSTANTS Keys, Callers, Nobody

VARIABLES
  inUse,   \* the lock has not been torn down
  holder,  \* the caller inside, per key
  line     \* the callers waiting, per key

vars == <<inUse, holder, line>>

Away(c) ==
  \A k \in Keys : holder[k] # c /\ \A i \in DOMAIN line[k] : line[k][i] # c

Init ==
  /\ inUse = TRUE
  /\ holder = [k \in Keys |-> Nobody]
  /\ line = [k \in Keys |-> <<>>]

Enter(c, k) ==
  /\ Away(c) /\ holder[k] = Nobody
  /\ holder' = [holder EXCEPT ![k] = c]
  /\ UNCHANGED <<inUse, line>>

Join(c, k) ==
  /\ Away(c) /\ holder[k] # Nobody
  /\ line' = [line EXCEPT ![k] = Append(@, c)]
  /\ UNCHANGED <<inUse, holder>>

GiveUp(c, k) ==
  /\ \E i \in DOMAIN line[k] :
       line[k][i] = c /\ line' = [line EXCEPT ![k] = Without(@, i)]
  /\ UNCHANGED <<inUse, holder>>

Leave(k) ==
  /\ holder[k] # Nobody
  /\ IF line[k] = <<>>
     THEN holder' = [holder EXCEPT ![k] = Nobody] /\ UNCHANGED line
     ELSE /\ holder' = [holder EXCEPT ![k] = Head(line[k])]
          /\ line' = [line EXCEPT ![k] = Tail(@)]
  /\ UNCHANGED inUse

Next ==
  \/ ~inUse'
  \/ \E k \in Keys :
       Leave(k) \/ \E c \in Callers : Enter(c, k) \/ Join(c, k) \/ GiveUp(c, k)

\* A lock that was torn down is never in use again.
Spec == Init /\ [][Next]_vars
===============================================================================
