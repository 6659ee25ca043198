------------------------------ MODULE Envelope ------------------------------
(***************************************************************************)
(* Sealed objects (crates/cs-crypto): what a device can open, by terms in  *)
(* place of bytes.  Keys, nonces and hashes are equal exactly if they are  *)
(* made of the same parts; a key that does not fit opens nothing.          *)
(***************************************************************************)
EXTENDS Integers

\* The keys of a vault, all derived from its RIK (derive_recipient_keypair).
RecipientKeys(rik) == <<rik>>

\* Mutant: the version of the file is left out.
PathOnly(aad) == <<aad.path>>
AadBytes(aad) == <<aad.path, aad.version>>

\* hybrid_encapsulate and hybrid_decapsulate: a wrap key made of a fresh secret
\* and the recipient's keys.  With other keys it gives another wrap key.
WrapKey(ct, keys) == [secret |-> ct.secret, keys |-> keys]

\* seal: the text under a fresh key, that key under the wrap key.
Seal(text, aad, keys, fresh) ==
    LET ct     == [secret |-> fresh]
        header == [kem |-> ct, dek |-> fresh, under |-> WrapKey(ct, keys), aad |-> AadBytes(aad)]
    IN  [header |-> header,
         body   |-> [text |-> text, under |-> fresh, aad |-> <<AadBytes(aad), header>>]]

\* open: unwrap_key, then the body, each authenticated with what it was sealed with.
CanOpen(header, body, aad, keys) ==
    /\ header.under = WrapKey(header.kem, keys) /\ header.aad = AadBytes(aad)
    /\ body.under = header.dek /\ body.aad = <<AadBytes(aad), header>>
=============================================================================
