----------------------------- MODULE RequestGate -----------------------------
(***************************************************************************)
(* The two gates that a request passes: the IP security and the token      *)
(* verifier.  They share no state, so a behaviour exercises one of them    *)
(* while the other rests.                                                  *)
(***************************************************************************)
EXTENDS AccessControl, TokenVerifier

VARIABLE gate

GateInit == Init /\ VerifierInit /\ gate \in {"ip", "token"}

GateNext ==
  \/ gate = "ip" /\ Next /\ UNCHANGED <<gate, verifierVars>>
  \/ gate = "token" /\ VerifierNext /\ UNCHANGED <<gate, vars>>

GateSpec == GateInit /\ [][GateNext]_<<gate, vars, verifierVars>>

\* Both gates keep their types: the store of the limiter stays within its bound, and the
\* lock of the verifier is held by the token that fetches and by nobody else.
GateTypeOK == TypeOK /\ VerifierTypeOK
=============================================================================
