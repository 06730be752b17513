----------------------------- MODULE MCDelivery -----------------------------
(* What reaches production and how it is tried out: the transport of the   *)
(* metrics, the measurement of the load a Worker bears, and the            *)
(* verification of a release.  They share no state here; one run checks    *)
(* them, and `part` says which of them moves.                              *)
EXTENDS Upload, Headroom, Release

VARIABLE part
deliveryVars == <<part, vars, headVars, releaseVars>>

\* Two workers that wait for one another, and then one.
MCConcurrency == <<2, 1>>

DeliveryInit ==
  /\ Init /\ HeadroomInit /\ ReleaseInit
  /\ part \in {"upload", "measurement", "verification"}

DeliveryNext ==
  \/ part = "upload" /\ Next /\ UNCHANGED <<part, headVars, releaseVars>>
  \/ part = "measurement" /\ HeadroomNext /\ UNCHANGED <<part, vars, releaseVars>>
  \/ part = "verification" /\ ReleaseNext /\ UNCHANGED <<part, vars, headVars>>

\* The one property that needs fairness is about the transport.
DeliverySpec == DeliveryInit /\ [][DeliveryNext]_deliveryVars /\ Fairness
=============================================================================
