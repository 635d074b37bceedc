---- MODULE Vrf ----
(***************************************************************************)
(* The VRF accounts the program reads, and its client of src/src/vrf.rs.   *)
(* One request account exists per seed (a PDA of the seed); the seed is a  *)
(* hash of the game's address, the joiner and the joiner's entropy, taken  *)
(* here as the injective triple of the three.  The VRF program itself is   *)
(* external: anyone may send it a request for any seed, and its answer     *)
(* comes when it comes, or never.  The mock of src/mock-vrf answers inside *)
(* the request instead.                                                    *)
(***************************************************************************)
CONSTANTS
  Seeds,            \* the seeds of the model
  Randomness,       \* the answers an oracle can give
  InstantVrf        \* TRUE: requests are answered at once (mock_vrf)

VARIABLE vrf        \* the request account of each seed

VrfInit == vrf = [seed \in Seeds |-> "None"]

IsRequestFulfilled(seed) == vrf[seed] \in Randomness

\* What RequestV2 leaves in a fresh request account.
RequestAnswers == IF InstantVrf THEN Randomness ELSE {"Pending"}

\* A slip: any request account that exists will do, answered or not.
RequestAnyExisting(seed) ==
  \/ /\ vrf[seed] = "None"
     /\ \E answer \in RequestAnswers : vrf' = [vrf EXCEPT ![seed] = answer]
  \/ /\ vrf[seed] # "None"
     /\ vrf' = vrf

\* request_randomness: a request that exists already is accepted only while
\* it is unanswered; an answered one is the error InvalidVrfAccounts.
RequestRandomness(seed) ==
  \/ /\ vrf[seed] = "None"
     /\ \E answer \in RequestAnswers : vrf' = [vrf EXCEPT ![seed] = answer]
  \/ /\ vrf[seed] = "Pending"
     /\ vrf' = vrf

\* Anyone sends the VRF program a request of their own.
VrfRequest(seed) ==
  /\ vrf[seed] = "None"
  /\ \E answer \in RequestAnswers : vrf' = [vrf EXCEPT ![seed] = answer]

\* The oracle answers a pending request.
VrfFulfil(seed) ==
  /\ vrf[seed] = "Pending"
  /\ \E r \in Randomness : vrf' = [vrf EXCEPT ![seed] = r]

VrfTypeOK == vrf \in [Seeds -> {"None", "Pending"} \union Randomness]
====
