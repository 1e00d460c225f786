------------------------------ MODULE Secrets ------------------------------
(***************************************************************************)
(* The secret of a source: the row users store in managed_secrets,         *)
(* encrypted with the key of the API process, the environment variable of  *)
(* the pod, and what the source itself accepts.                            *)
(*                                                                         *)
(* resolve_secret prefers the row.  A key other than the one it was        *)
(* encrypted with decrypts it to some other text, or to none.              *)
(***************************************************************************)
EXTENDS Naturals

CONSTANTS
    Values,    \* secret values
    NoValue,   \* no row, no variable, or nothing resolved
    Garbage    \* a row decrypted with another key

ASSUME SecretAssumption == {NoValue, Garbage} \cap Values = {} /\ NoValue # Garbage

VARIABLES
    row,       \* table managed_secrets
    variable,  \* SECRET_<REF> in the environment of the run
    runKey,    \* MANAGED_SECRET_ENCRYPTION_KEY of the run, against the one of the API
    accepted   \* the secret the source accepts

secretVars == <<row, variable, runKey, accepted>>

SecretTypeOK ==
    /\ {row, variable} \subseteq Values \cup {NoValue}
    /\ runKey \in {"same", "other", "unset"}
    /\ accepted \in Values

\* get_secret_value: what the row is decrypted to; NoValue stands for an exception.
Decrypted ==
    CASE runKey = "same"  -> {row}
      [] runKey = "other" -> {Garbage, NoValue}
      [] runKey = "unset" -> {NoValue}

\* The values resolve_secret may return; it raises for NoValue.
Resolvable == IF row # NoValue THEN Decrypted ELSE {variable}

\* POST /v1/studio/secrets.
UpsertSecret(v) ==
    /\ row # v
    /\ row' = v
    /\ UNCHANGED <<variable, runKey, accepted>>

\* The source is given a new secret.
RotateSecret(v) ==
    /\ accepted # v
    /\ accepted' = v
    /\ UNCHANGED <<row, variable, runKey>>
=============================================================================
