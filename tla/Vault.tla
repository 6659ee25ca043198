------------------------------- MODULE Vault --------------------------------
(***************************************************************************)
(* What the sync engine promises the devices of one vault: the vault has a *)
(* single history.  Publishing appends exactly one version to it, no path  *)
(* that was once published is ever forgotten (a deleted one keeps its      *)
(* tombstone), and a device comes to know a version only by a sync of its  *)
(* own that published it, so what it knows never lies ahead of the vault.  *)
(* There are no ETags, fetches, retries or blobs here.                     *)
(***************************************************************************)
EXTENDS ManifestClock

CONSTANT Path

VARIABLES
    version,    \* the number of the vault's current version
    published,  \* the paths it says something of
    known,      \* known[d]: the version device d remembers
    pending     \* pending[d]: the version d will remember when its sync has ended

Nothing == -1

vaultVars == <<version, published, known, pending>>

VaultInit ==
    /\ version = 0
    /\ published = {}
    /\ known = [d \in Device |-> 0]
    /\ pending = [d \in Device |-> Nothing]

Publish(d) ==
    /\ pending[d] = Nothing
    /\ version' = SaturatingNext(version)
    /\ published' \in SUBSET Path
    /\ published \subseteq published'
    /\ pending' = [pending EXCEPT ![d] = version']
    /\ UNCHANGED known

\* A sync that ends well without publishing (the user aborted it).
Reaffirm(d) ==
    /\ pending[d] = Nothing
    /\ pending' = [pending EXCEPT ![d] = known[d]]
    /\ UNCHANGED <<version, published, known>>

Remember(d) ==
    /\ pending[d] # Nothing
    /\ known' = [known EXCEPT ![d] = pending[d]]
    /\ pending' = [pending EXCEPT ![d] = Nothing]
    /\ UNCHANGED <<version, published>>

\* The device fails between publishing and remembering.
Forget(d) ==
    /\ pending[d] # Nothing
    /\ pending' = [pending EXCEPT ![d] = Nothing]
    /\ UNCHANGED <<version, published, known>>

VaultNext == \E d \in Device : Publish(d) \/ Reaffirm(d) \/ Remember(d) \/ Forget(d)

VaultSpec == VaultInit /\ [][VaultNext]_vaultVars

=============================================================================
