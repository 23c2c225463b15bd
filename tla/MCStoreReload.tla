---------------------------- MODULE MCStoreReload ---------------------------
\* One remotely signaled inbound leg and one Bridgefu-signaled outbound leg.
EXTENDS StoreReload, TLC

CONSTANTS inLeg, outLeg, ProviderVersions

MCInitiator == (inLeg :> "remote") @@ (outLeg :> "bridgefu")
MCDirection == (inLeg :> "inbound") @@ (outLeg :> "outbound")
MCInitialKind == (inLeg :> "other") @@ (outLeg :> "other")

\* The same call with a Telnyx outbound leg.  Init alone reads InitialKind.
Provider ==
    INSTANCE StoreReload WITH
        InitialKind <- (inLeg :> "other") @@ (outLeg :> "telnyx")

MCSpec == (SInit \/ Provider!SInit) /\ [][SNext]_svars

\* That call is followed for its first versions, past its attachment.
ProviderBound == kind[outLeg] = "telnyx" /\ binding[outLeg] = 1 => version <= ProviderVersions

\* The executor's ledger decides nothing here and no property reads it.
Stored == <<aggregate, fence, lease, tables, ledgers, rows>>

ConnSymmetry == Permutations(Conn)
=============================================================================
