------------------------------ MODULE Secrets ------------------------------
(***************************************************************************)
(* The envelope-encrypted secrets in Postgres (envkek.Store).  A secret is *)
(* bound to a kind and to the object it belongs to: both are columns, and  *)
(* both are authenticated with the ciphertexts.  Ciphers are abstracted to *)
(* the key and the additional data they were made with.                    *)
(***************************************************************************)
EXTENDS Naturals

CONSTANT NoSecret     \* the absent row

KeyKind == "ssh_private_key"
CurrentVersion == 1

\* secretAAD: what a ciphertext is bound to.
Aad(kind, ref) == <<kind, ref>>

\* EncryptDEK of the key provider: the data key, wrapped with the KEK of the process.
EncryptDEK(kek, aad) == [kek |-> kek, version |-> CurrentVersion, aad |-> aad]

\* DecryptDEK: only with the same key, version and additional data.
CanDecryptDEK(kek, wrapped) == wrapped.kek = kek /\ wrapped.version = CurrentVersion

\* Put: a row with a data key of its own.
SecretRow(kek, kind, ref, payload) ==
    [kind |-> kind, ref |-> ref, payload |-> payload,
     aad |-> Aad(kind, ref), dek |-> EncryptDEK(kek, Aad(kind, ref))]

\* Get: the row must exist, be of the kind and the object asked for, and decrypt.
SecretGet(row, kek, kind, ref) ==
    IF row = NoSecret THEN "not_found"
    ELSE IF row.kind # kind \/ row.ref # ref THEN "forbidden"
    ELSE IF ~ CanDecryptDEK(kek, row.dek) \/ row.aad # row.dek.aad THEN "mismatch"
    ELSE "ok"
=============================================================================
