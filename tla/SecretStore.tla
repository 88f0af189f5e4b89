---------------------------- MODULE SecretStore ----------------------------
(***************************************************************************)
(* The endpoint's secret in the last flash sector: pico-std/c/src/secret.c *)
(* and load_or_create_secret of iroh-echo-full/src/iroh_echo.rs.           *)
(*                                                                         *)
(* Power may fail, and the flash may err, at any point: a page whose       *)
(* programming was cut short may have its magic, and then passes for a     *)
(* stored secret, although its key is not the one that was generated.      *)
(***************************************************************************)
CONSTANTS Secret, NoSecret, Blank

Partial(s) == <<"partial", s>>
Key == Secret \cup {Partial(s) : s \in Secret}

ASSUME SecretAssumption == {NoSecret, Blank} \cap Key = {}

VARIABLES
  flash,      \* the key behind a whole magic, or Blank
  store,      \* "idle", "erase", "program", "verify" or "done"
  secret,     \* the endpoint's secret since the last boot
  used,       \* secrets that have been generated
  promised    \* the secret of the first boot that gave no warning

secretVars == <<flash, store, secret, used, promised>>

SecretInit ==
  /\ flash = Blank /\ store = "idle"
  /\ secret = NoSecret /\ used = {} /\ promised = NoSecret

\* presto_secret_load finds the magic.
LoadSecret ==
  /\ store = "idle" /\ flash # Blank
  /\ secret' = flash
  /\ promised' = IF promised = NoSecret THEN flash ELSE promised
  /\ store' = "done"
  /\ UNCHANGED <<flash, used>>

\* It does not: a secret is made up.
GenerateSecret ==
  /\ store = "idle" /\ flash = Blank
  /\ \E s \in Secret \ used : secret' = s /\ used' = used \cup {s}
  /\ store' = "erase"
  /\ UNCHANGED <<flash, promised>>

EraseSector ==
  /\ store = "erase"
  /\ flash' = Blank
  /\ store' = "program"
  /\ UNCHANGED <<secret, used, promised>>

\* The page is whole in the end, unless the flash errs.
ProgramPage ==
  /\ store = "program"
  /\ flash' \in {secret, Partial(secret), Blank}
  /\ store' = "verify"
  /\ UNCHANGED <<secret, used, promised>>

\* Variant: the magic is enough.
StoredMagic == flash # Blank

StoredWell == flash = secret

\* presto_secret_store reads the page back; the caller prints a warning when
\* it is not as it should be, and uses the secret all the same.
VerifyPage ==
  /\ store = "verify"
  /\ promised' = IF StoredWell /\ promised = NoSecret THEN secret ELSE promised
  /\ store' = "done"
  /\ UNCHANGED <<flash, secret, used>>

\* The processor stops: a page that is being programmed stays as it is then.
SecretReset ==
  /\ flash' \in IF store = "program" THEN {Blank, Partial(secret), secret} ELSE {flash}
  /\ store' = "idle" /\ secret' = NoSecret
  /\ UNCHANGED <<used, promised>>

(***************************************************************************)
(* "so the endpoint id stays stable across restarts": when a boot has      *)
(* ended its search for a secret without a warning, each later one has the *)
(* same, although a reset may come at any point of any of them.            *)
(***************************************************************************)
IdentityIsKept == store = "done" /\ promised # NoSecret => secret = promised
=============================================================================
