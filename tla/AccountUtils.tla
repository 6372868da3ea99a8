---------------------------- MODULE AccountUtils ----------------------------
(***************************************************************************)
(* The conversions of AccountUtils in packages/chain/substrate-signer/     *)
(* src/index.ts, with fromHex of packages/chain/scale: callers pass on the *)
(* text of an account, as an SS58 address or as a hex public key, and      *)
(* convert it back and forth.  The SS58 codec is external.                 *)
(***************************************************************************)
EXTENDS Naturals

CONSTANTS
  Key,       \* 32-byte public keys
  Prefix,    \* network prefixes
  Padding    \* how many blanks may stand around a text

PRD_SS58_PREFIX == 42

VARIABLES
  text,   \* the text the caller holds: [form, key, prefix, pad]
  call    \* the conversion that made it

accountVars == <<text, call>>

Hex(k, pad) == [form |-> "hex", key |-> k, prefix |-> PRD_SS58_PREFIX, pad |-> pad]
Ss58(k, p, pad) == [form |-> "ss58", key |-> k, prefix |-> p, pad |-> pad]
Threw(t) == [t EXCEPT !.form = "threw"]

\* What a caller may begin with; "other" is no account at all.
AccountInit ==
  /\ \E k \in Key, p \in Prefix, pad \in Padding :
       text \in {Hex(k, pad), Ss58(k, p, pad), [Hex(k, pad) EXCEPT !.form = "other"]}
  /\ call = "none"

-----------------------------------------------------------------------------
\* isAccountPK trims before it matches; getSs58AddressInfo takes no blanks.
isAccountPK(t) == t.form = "hex"
ValidSs58(t) == t.form = "ss58" /\ t.pad = 0

addressToPublicKey(t) == IF ValidSs58(t) THEN Hex(t.key, 0) ELSE Threw(t)

\* fromHex takes blanks for digits: an odd number of them makes it throw, an
\* even number makes more bytes than the key has, of which the codec makes
\* whatever it may.
publicKeyToAddress(t) ==
  IF t.pad = 0 THEN Ss58(t.key, PRD_SS58_PREFIX, 0)
  ELSE IF t.pad % 2 = 1 THEN Threw(t) ELSE [t EXCEPT !.form = "other"]

convertToPublicKeyIfNeeded(t) ==
  IF isAccountPK(t) THEN [t EXCEPT !.pad = 0] ELSE addressToPublicKey(t)
convertToAddress(t) == IF isAccountPK(t) THEN publicKeyToAddress(t) ELSE t

Calls(name, result) == text.form # "threw" /\ call' = name /\ text' = result

\* The variants that answer bytes differ in the form of their result only.
ConvertsToPublicKey == Calls("convertToPublicKeyIfNeeded", convertToPublicKeyIfNeeded(text))
ConvertsToAddress == Calls("convertToAddress", convertToAddress(text))

AccountNext == ConvertsToPublicKey \/ ConvertsToAddress
AccountSpec == AccountInit /\ [][AccountNext]_accountVars

-----------------------------------------------------------------------------
\* "Normalise an address-or-public-key to an SS58 address": what isAccountPK
\* calls a public key convertToAddress turns into its address, as
\* convertToPublicKeyIfNeeded turns it into its key.
Normalises ==
  [][isAccountPK(text) =>
       text' = IF call' = "convertToAddress" THEN Ss58(text.key, PRD_SS58_PREFIX, 0)
               ELSE Hex(text.key, 0)
    ]_accountVars
=============================================================================
