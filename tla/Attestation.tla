----------------------------- MODULE Attestation -----------------------------
(***************************************************************************)
(* Key attestations of processors and the certificate revocation list of   *)
(* pallet-acurast.  A certificate chain is a record of what validation     *)
(* reads of it; parsing and signatures are not modelled: a chain in Chains *)
(* ends in a trusted root.                                                 *)
(***************************************************************************)
EXTENDS Integers, FiniteSets

CONSTANTS Processors,     \* device accounts; an account is the hash of its key
          Serials,        \* the certificate serial numbers that may be revoked
          Chains,         \* the chains there are
          None,
          LastTime        \* bound on the clock

ASSUME AttestationAssumption ==
    /\ LastTime \in Nat /\ None \notin Nat
    /\ \A c \in Chains :
          /\ c.key \in Processors
          /\ c.not_before \in Nat /\ c.not_after \in Nat
          /\ c.usage_expires \in Nat \cup {None}
          /\ c.accepted \in BOOLEAN

VARIABLES now,       \* UnixTime
          stored,    \* StoredAttestation: the chain behind it, or None
          revoked    \* StoredRevokedCertificate

attestVars == <<now, stored, revoked>>

-----------------------------------------------------------------------------
\* Slip: only the validity of the certificate is looked at.
ensure_not_expired_certificateOnly(c) == c.not_before <= now /\ now < c.not_after

ensure_not_expired(c) ==
    /\ c.not_before <= now /\ now < c.not_after
    /\ c.usage_expires # None => now < c.usage_expires

\* Revocation goes by serial number, whoever issued the certificate.
ensure_not_revoked(c) == c.serials \cap revoked = {}

ensure_valid_public_key_for_source(account, c) == c.key = account

\* AttestationValidator::validate; c.accepted is the runtime's barrier, which
\* compares package names, signature digests and bundle ids.
validate(account, c) ==
    /\ Cardinality(c.serials) >= 2
    /\ ensure_valid_public_key_for_source(account, c)
    /\ c.accepted
    /\ ensure_not_expired(c)
    /\ ensure_not_revoked(c)

\* Slip: a stored attestation is trusted for ever.
check_attestation_revocationIgnored(account) == stored[account] # None

\* What the other pallets ask of a processor that attested earlier.
check_attestation(account) ==
    /\ stored[account] # None
    /\ ensure_not_revoked(stored[account])
    /\ stored[account].accepted

ensure_source_verified(account) == check_attestation(account)

-----------------------------------------------------------------------------
SubmitAttestation(account, c) ==
    /\ validate(account, c)
    /\ stored' = [stored EXCEPT ![account] = c]
    /\ UNCHANGED <<now, revoked>>

\* update_certificate_revocation_list; a list of updates is their sequence.
UpdateRevocationList(serial, add) ==
    /\ revoked' = IF add THEN revoked \cup {serial} ELSE revoked \ {serial}
    /\ UNCHANGED <<now, stored>>

Tick ==
    /\ now < LastTime
    /\ now' = now + 1
    /\ UNCHANGED <<stored, revoked>>

AttestInit == now = 0 /\ stored = [a \in Processors |-> None] /\ revoked = {}

-----------------------------------------------------------------------------
\* ensure_source_verified and the revocation list: no account counts as
\* verified through another device's chain, nor through a chain with a
\* revoked certificate, whether it was revoked before or after submission.
VerifiedByOwnUnrevokedKey ==
    \A a \in Processors : ensure_source_verified(a) =>
        stored[a].key = a /\ stored[a].serials \cap revoked = {}

\* submit_attestation: an account starts to count as verified only by
\* submitting a chain that is usable at that moment, or because the list
\* of revoked certificates got shorter.
VerifiedOnlyByUsableChain ==
    [][\A a \in Processors :
         (ensure_source_verified(a)' /\ ~ensure_source_verified(a)) =>
            \/ revoked' # revoked
            \/ /\ stored'[a].not_before <= now /\ now < stored'[a].not_after
               /\ stored'[a].usage_expires # None => now < stored'[a].usage_expires]_attestVars
=============================================================================
