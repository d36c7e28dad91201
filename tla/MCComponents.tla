---------------------------- MODULE MCComponents ----------------------------
(***************************************************************************)
(* Components that share no state, each explored alone: `part` says which  *)
(* one a behaviour is about.  Guardian accounts of which one may come from *)
(* an old file, the configuration of a child, the inspection path of the   *)
(* client, the pinning registry of its proxy, the bridge of its VPN and    *)
(* the store of its events.                                                *)
(***************************************************************************)
EXTENDS AccountCredentials, ChildControl, Inspection, Pinning, Netstack, EvidenceStore

CONSTANTS alice, oldpass, newpass, h1, h2, ann, ben, phone, tablet, x, y

VARIABLE part

allVars == <<part, vars, controlVars, inspectOnly, bufferVars, pinVars, netVars, storeVars>>

\* A child whose guardian replaces its device, and another who is given the first
\* one too.  The new one stays switched off.
SwapDevice == {<<ann, phone>>, <<ann, tablet>>, <<ben, phone>>}
TabletOff == UNCHANGED <<dev[tablet], stream[tablet]>>

\* A connection to a listed destination sends its hello only and is not answered.
ListedBrief == \A f \in Listed : client'[f].sent <= HelloLen /\ remote'[f].sent = 0

\* What an analyzer may say: nothing found, something to blur, or that it could
\* not look.
TypicalJudgements ==
    {[category |-> "safe", score |-> 0],
     [category |-> "adult_image", score |-> 90], [category |-> "unspecified", score |-> 0]}

ComponentsInit ==
    /\ part \in {"accounts", "control", "inspection", "pinning", "net", "store"}
    /\ Init /\ ControlInit /\ InspectInit /\ PinInit /\ NetInit /\ StoreInit
    /\ part # "accounts" => ~byEmail[alice].exists
    /\ part # "inspection" => router = "none" /\ runner = "pipeline"
    /\ part # "pinning" => failOpen
    /\ part # "net" => filter = "inspect"
    /\ part # "store" => backend = "sqlite"

ComponentsNext ==
    /\ UNCHANGED part
    /\ \/ /\ part = "accounts" /\ Next
          /\ UNCHANGED <<controlVars, inspectOnly, bufferVars, pinVars, netVars, storeVars>>
       \/ /\ part = "control" /\ ControlNext /\ TabletOff
          /\ UNCHANGED <<vars, inspectOnly, bufferVars, pinVars, netVars, storeVars>>
       \/ /\ part = "inspection" /\ InspectNext
          /\ UNCHANGED <<vars, controlVars, pinVars, netVars, storeVars>>
       \/ /\ part = "pinning" /\ PinNext
          /\ UNCHANGED <<vars, controlVars, inspectOnly, bufferVars, netVars, storeVars>>
       \/ /\ part = "net" /\ NetNext /\ ListedBrief
          /\ UNCHANGED <<vars, controlVars, inspectOnly, bufferVars, pinVars, storeVars>>
       \/ /\ part = "store" /\ StoreNext
          /\ UNCHANGED <<vars, controlVars, inspectOnly, bufferVars, pinVars, netVars>>

ComponentsSpec == ComponentsInit /\ [][ComponentsNext]_allVars
=============================================================================
