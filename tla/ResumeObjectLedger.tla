-------------------------- MODULE ResumeObjectLedger --------------------------
(***************************************************************************)
(* What app/resumes promises about a private resume object, without the    *)
(* requests, the retries and the two stores: every object that exists is   *)
(* either the object of a visible resume or on a cleanup list, an object   *)
(* is on that list before it exists and until after it is gone, and a      *)
(* resume that was withdrawn never becomes visible again.                  *)
(***************************************************************************)
CONSTANTS Ids,       \* resume ids, and with them object keys
          Visible    \* the resumes visible initially

VARIABLES phase,     \* where each object is in its life
          withdrawn  \* resumes that were visible and no longer are

vars == <<phase, withdrawn>>

\* vacant: no object and not listed;  pending: listed, no object;
\* stored: listed, object exists;     live: visible, object exists, not listed.
Phases == {"vacant", "pending", "stored", "live"}

Init ==
  /\ phase = [k \in Ids |-> IF k \in Visible THEN "live" ELSE "vacant"]
  /\ withdrawn = {}

Move(k, from, to) ==
  /\ phase[k] = from
  /\ phase' = [phase EXCEPT ![k] = to]
  /\ UNCHANGED withdrawn

List(k) == Move(k, "vacant", "pending")
Store(k) == k \notin withdrawn /\ Move(k, "pending", "stored")
Erase(k) == Move(k, "stored", "pending")
Publish(k) == k \notin withdrawn /\ Move(k, "stored", "live")

Withdraw(k) ==
  /\ phase[k] = "live"
  /\ phase' = [phase EXCEPT ![k] = "stored"]
  /\ withdrawn' = withdrawn \cup {k}

\* A replacement becomes visible in the step that withdraws the old resume.
Swap(k, old) ==
  /\ k # old /\ k \notin withdrawn
  /\ phase[k] = "stored" /\ phase[old] = "live"
  /\ phase' = [phase EXCEPT ![k] = "live", ![old] = "stored"]
  /\ withdrawn' = withdrawn \cup {old}

\* Objects that are gone leave the cleanup list, several at a time.
Unlist(S) ==
  /\ S # {} /\ \A k \in S : phase[k] = "pending"
  /\ phase' = [k \in Ids |-> IF k \in S THEN "vacant" ELSE phase[k]]
  /\ UNCHANGED withdrawn

Next ==
  \/ \E k \in Ids : List(k) \/ Store(k) \/ Erase(k) \/ Publish(k) \/ Withdraw(k)
  \/ \E k, old \in Ids : Swap(k, old)
  \/ \E S \in SUBSET Ids : Unlist(S)

Spec == Init /\ [][Next]_vars
=============================================================================
