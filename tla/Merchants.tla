----------------------------- MODULE Merchants -----------------------------
(***************************************************************************)
(* MerchantsService and ApiKeyGuard: administrators create merchants,      *)
(* change them, issue and revoke API keys; requests are admitted by their  *)
(* key.  A request arrives, is looked up in one database call, and leaves  *)
(* behind an update of lastUsedAt that nobody waits for.                   *)
(*                                                                         *)
(* No merchant and no key is ever deleted, so the row that update, rotate  *)
(* and revoke look for first is still there when they write: each of the   *)
(* three is one step.                                                      *)
(***************************************************************************)
EXTENDS FiniteSets

CONSTANTS
    Merchants,   \* the merchants that exist or may be created
    Seeded,      \* those that exist from the start
    Emails, Urls, Secrets,
    NoUrl,       \* webhookUrl is null
    NoSecret,    \* webhookSecret is null, after an update that says so
    Given,       \* Given[m]: what the request that creates m asks for
    Keys,        \* the API keys
    FirstKey,    \* FirstKey[m]: the key that is created together with m
    IssuedTo,    \* IssuedTo[k]: the merchant k is or would be created for
    Requests,
    KeyIn        \* KeyIn[r]: the key that request r presents

Rows == [email : Emails, url : Urls \cup {NoUrl}, secret : Secrets \cup {NoSecret},
         active : BOOLEAN]

ASSUME MerchantAssumption ==
    /\ Seeded \subseteq Merchants
    /\ NoUrl \notin Urls
    /\ NoSecret \notin Secrets
    /\ Given \in [Merchants -> Rows]
    /\ \A m \in Merchants : Given[m].active /\ Given[m].secret \in Secrets
    /\ \A m, n \in Seeded : Given[m].email = Given[n].email => m = n
    /\ FirstKey \in [Merchants -> Keys]
    /\ IssuedTo \in [Keys -> Merchants]
    /\ \A m \in Merchants : IssuedTo[FirstKey[m]] = m
    /\ KeyIn \in [Requests -> Keys]

VARIABLES
    created,   \* the merchants that have a row
    merchant,  \* merchant[m]: that row
    createPc,  \* createPc[m]: where the request that creates m is
    apiKey,    \* apiKey[k]: "none", or whether the row of k is active
    guardPc,   \* guardPc[r]: where r is, or how the guard has decided
    touching,  \* the requests whose update of lastUsedAt is under way
    barred     \* history: see Arrive

merchantVars == <<created, merchant, createPc, apiKey, guardPc, touching, barred>>

MerchantTypeOK ==
    /\ created \in SUBSET Merchants
    /\ merchant \in [Merchants -> Rows]
    /\ createPc \in [Merchants -> {"idle", "inserting", "created", "conflict", "error"}]
    /\ apiKey \in [Keys -> {"none", "active", "revoked"}]
    /\ guardPc \in [Requests -> {"idle", "looking", "admitted", "401"}]
    /\ touching \in SUBSET Requests
    /\ barred \in SUBSET Requests

MerchantInit ==
    /\ created = Seeded
    /\ merchant = Given
    /\ createPc = [m \in Merchants |-> IF m \in Seeded THEN "created" ELSE "idle"]
    /\ apiKey = [k \in Keys |-> IF \E m \in Seeded : k = FirstKey[m] THEN "active" ELSE "none"]
    /\ guardPc = [r \in Requests |-> "idle"]
    /\ touching = {}
    /\ barred = {}

Admitting(k) == apiKey[k] = "active" /\ merchant[IssuedTo[k]].active

EmailTaken(e) == \E m \in created : merchant[m].email = e

CreateGoto(m, step) == createPc' = [createPc EXCEPT ![m] = step]

-----------------------------------------------------------------------------
(* Mutated forms of actions below. *)

\* The email column is not unique: the check at the start is trusted.
InsertTrustsCheck(m) ==
    /\ createPc[m] = "inserting"
    /\ created' = created \cup {m}
    /\ merchant' = [merchant EXCEPT ![m] = Given[m]]
    /\ apiKey' = [apiKey EXCEPT ![FirstKey[m]] = "active"]
    /\ CreateGoto(m, "created")
    /\ UNCHANGED <<guardPc, touching, barred>>

\* The key is created in a call of its own, which may be rejected.
InsertKeySeparately(m) ==
    /\ createPc[m] = "inserting"
    /\ ~EmailTaken(Given[m].email)
    /\ created' = created \cup {m}
    /\ merchant' = [merchant EXCEPT ![m] = Given[m]]
    /\ \/ apiKey' = [apiKey EXCEPT ![FirstKey[m]] = "active"] /\ CreateGoto(m, "created")
       \/ UNCHANGED apiKey /\ CreateGoto(m, "error")
    /\ UNCHANGED <<guardPc, touching, barred>>

\* The background update writes the whole row it was given.
TouchWritesRow(r) ==
    /\ r \in touching
    /\ touching' = touching \ {r}
    /\ apiKey' = [apiKey EXCEPT ![KeyIn[r]] = "active"]
    /\ UNCHANGED <<created, merchant, createPc, guardPc, barred>>

-----------------------------------------------------------------------------
(* createMerchant: the check for the email. *)
CheckEmail(m) ==
    /\ createPc[m] = "idle"
    /\ CreateGoto(m, IF EmailTaken(Given[m].email) THEN "conflict" ELSE "inserting")
    /\ UNCHANGED <<created, merchant, apiKey, guardPc, touching, barred>>

(* createMerchant: the nested create of the merchant and its first key. *)
Insert(m) ==
    /\ createPc[m] = "inserting"
    /\ ~EmailTaken(Given[m].email)
    /\ created' = created \cup {m}
    /\ merchant' = [merchant EXCEPT ![m] = Given[m]]
    /\ apiKey' = [apiKey EXCEPT ![FirstKey[m]] = "active"]
    /\ CreateGoto(m, "created")
    /\ UNCHANGED <<guardPc, touching, barred>>

(* The create is rejected, because of the unique email or otherwise: an    *)
(* exception nobody catches.                                               *)
InsertFails(m) ==
    /\ createPc[m] = "inserting"
    /\ CreateGoto(m, "error")
    /\ UNCHANGED <<created, merchant, apiKey, guardPc, touching, barred>>

(* updateMerchant writes the fields the request names and no other.  A     *)
(* request whose key is not revoked may come in again once its merchant is *)
(* active.                                                                 *)
UpdateMerchant(m) ==
    /\ m \in created
    /\ \E new \in Rows :
        /\ new.email = merchant[m].email \/ ~EmailTaken(new.email)
        /\ merchant' = [merchant EXCEPT ![m] = new]
        /\ barred' = IF new.active
                     THEN {r \in barred : IssuedTo[KeyIn[r]] = m => apiKey[KeyIn[r]] = "revoked"}
                     ELSE barred
    /\ UNCHANGED <<created, createPc, apiKey, guardPc, touching>>

(* rotateApiKey: one more key; the others stay as they are. *)
RotateApiKey(k) ==
    /\ IssuedTo[k] \in created
    /\ k # FirstKey[IssuedTo[k]]
    /\ apiKey[k] = "none"
    /\ apiKey' = [apiKey EXCEPT ![k] = "active"]
    /\ UNCHANGED <<created, merchant, createPc, guardPc, touching, barred>>

RevokeApiKey(k) ==
    /\ apiKey[k] # "none"
    /\ apiKey' = [apiKey EXCEPT ![k] = "revoked"]
    /\ UNCHANGED <<created, merchant, createPc, guardPc, touching, barred>>

(* A request with a key some merchant was given comes in.  It is barred if *)
(* the key was revoked or the merchant deactivated before.                 *)
Arrive(r) ==
    /\ guardPc[r] = "idle"
    /\ apiKey[KeyIn[r]] # "none"
    /\ guardPc' = [guardPc EXCEPT ![r] = "looking"]
    /\ barred' = IF Admitting(KeyIn[r]) THEN barred ELSE barred \cup {r}
    /\ UNCHANGED <<created, merchant, createPc, apiKey, touching>>

(* findMerchantByApiKey: one findUnique of the key with its merchant, the  *)
(* update of lastUsedAt is started and the guard decides.                  *)
FindMerchant(r) ==
    /\ guardPc[r] = "looking"
    /\ IF Admitting(KeyIn[r])
       THEN /\ guardPc' = [guardPc EXCEPT ![r] = "admitted"]
            /\ touching' = touching \cup {r}
       ELSE /\ guardPc' = [guardPc EXCEPT ![r] = "401"]
            /\ UNCHANGED touching
    /\ UNCHANGED <<created, merchant, createPc, apiKey, barred>>

(* The update of lastUsedAt goes through or is rejected: either way no     *)
(* other column changes and nobody hears of it.                            *)
Touch(r) ==
    /\ r \in touching
    /\ touching' = touching \ {r}
    /\ UNCHANGED <<created, merchant, createPc, apiKey, guardPc, barred>>

AdminNext ==
    \/ \E m \in Merchants : CheckEmail(m) \/ Insert(m) \/ InsertFails(m) \/ UpdateMerchant(m)
    \/ \E k \in Keys : RotateApiKey(k) \/ RevokeApiKey(k)

GuardNext == \E r \in Requests : Arrive(r) \/ FindMerchant(r) \/ Touch(r)

MerchantNext == AdminNext \/ GuardNext

MerchantSpec == MerchantInit /\ [][MerchantNext]_merchantVars

-----------------------------------------------------------------------------
(* Properties *)

(* Two merchants never share an email, although two requests may both find *)
(* it free before either inserts, and updates change emails meanwhile.     *)
EmailsAreUnique ==
    \A m, n \in created : merchant[m].email = merchant[n].email => m = n

(* A request that comes in after its key was revoked, or after its         *)
(* merchant was deactivated, is not admitted: no step of another request   *)
(* with the key, its late update of lastUsedAt included, revives the key.  *)
BarredStaysOut == \A r \in barred : guardPc[r] # "admitted"

(* A merchant row never exists without the key that was returned for it,   *)
(* and a key row never without its merchant.                               *)
MerchantsHaveKeys ==
    /\ \A m \in created : apiKey[FirstKey[m]] # "none"
    /\ \A k \in Keys : apiKey[k] # "none" => IssuedTo[k] \in created

=============================================================================
