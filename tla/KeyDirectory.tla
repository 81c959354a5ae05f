---------------------------- MODULE KeyDirectory ----------------------------
(***************************************************************************)
(* The Signal keys the server keeps for one user: EncryptionService of     *)
(* backend/app/services/encryption_service.py and the endpoints of         *)
(* backend/app/api/routes/keys.py.                                         *)
(*                                                                         *)
(* Requests run in threads of several workers; each Redis command is a     *)
(* step, and so is the read and the commit of the user's row.  Keys are    *)
(* numbers in the order in which they are made; k stands for both halves   *)
(* of a key pair, and a signature for the signed key and the identity that *)
(* signed it.                                                              *)
(***************************************************************************)
EXTENDS Integers, FiniteSets

CONSTANTS
    Ids,        \* identifiers of one-time pre-keys, numbers from 1
    Requests,   \* requests at work at one time
    MaxKeys     \* keys ever made (bound)

ASSUME KeysAssumption == Ids \subseteq Nat \ {0} /\ MaxKeys \in Nat

VARIABLES
    identity,   \* identity_public_key and identity_private_key of the user,
                \*   and whether the service can load them
    private,    \* private[i]: user:{id}:prekey:{i}, 0 without one
    public,     \* public[i]: the entry i of user:{id}:prekeys
    signed,     \* user:{id}:signed_prekey, a hash with two fields
    req,        \* req[r]: the request in slot r
    made,       \* keys made so far
    handed,     \* handed[k]: how often consume_pre_key has returned key k
    excuse      \* history: what excuses an inconsistency

directoryVars == <<identity, private, public, signed, req, made, handed, excuse>>
keyVars == <<private, public, signed, handed>>

Keys == 0 .. MaxKeys                \* 0: no key
NoSig == [of |-> 0, by |-> 0]
Free == [pc |-> "free", op |-> "none", id |-> 0, key |-> 0, me |-> 0, sig |-> NoSig]
Writers == {"generate", "store"}
Signers == {"sign", "upload"}

KeysTypeOK ==
    /\ identity \in [public : Keys, private : Keys, loads : BOOLEAN]
    /\ private \in [Ids -> Keys] /\ public \in [Ids -> Keys]
    /\ signed \in [publicKey : Keys, signature : [of : Keys, by : Keys]]
    /\ req \in [Requests -> [pc : {"free", "load", "create", "hexists", "private", "public",
                                   "hget", "hdel", "del", "publicKey", "signature",
                                   "getKey", "getSig", "reply"},
                             op : {"none", "generate", "store", "consume", "sign", "upload", "get"},
                             id : Ids \cup {0}, key : Keys, me : Keys,
                             sig : [of : Keys, by : Keys]]]
    /\ made \in Keys
    /\ handed \in [Keys -> Nat]
    /\ excuse \subseteq {"identity", "signed", "key", "id"} \X (Keys \cup Ids)

KeysInit ==
    /\ identity = [public |-> 0, private |-> 0, loads |-> TRUE]
    /\ private = [i \in Ids |-> 0] /\ public = [i \in Ids |-> 0]
    /\ signed = [publicKey |-> 0, signature |-> NoSig]
    /\ req = [r \in Requests |-> Free]
    /\ made = 0 /\ handed = [k \in Keys |-> 0] /\ excuse = {}

Goto(r, step) == req' = [req EXCEPT ![r].pc = step]
End(r) == req' = [req EXCEPT ![r] = Free]
Note(what, when) == excuse' = excuse \cup (IF when THEN {what} ELSE {})
\* Another request of these kinds is under way.
Others(r, ops) == \E q \in Requests \ {r} : req[q].op \in ops
OthersOn(r, id, ops) ==
    \E q \in Requests \ {r} : /\ req[q].op \in ops /\ req[q].id = id
                             /\ req[q].pc \notin {"load", "create"}

-----------------------------------------------------------------------------
(***************************************************************************)
(* A request arrives.  Those that need the service construct it first.     *)
(***************************************************************************)
Arrive(r, op, id, step) ==
    /\ req[r].pc = "free"
    /\ req' = [req EXCEPT ![r] = [Free EXCEPT !.op = op, !.id = id, !.pc = step]]
    /\ UNCHANGED <<identity, keyVars, made, excuse>>

generate_pre_keys(r) == Arrive(r, "generate", 0, "load")
upload_prekey(r, i) == Arrive(r, "store", i, "load")
consume_pre_key(r, i) == Arrive(r, "consume", i, "load")
\* The private half of a signed key (lines 130-136) is read by nobody.
generate_signed_pre_key(r) == Arrive(r, "sign", 0, "load")
get_signed_prekey(r) == Arrive(r, "get", 0, "getKey")

AfterIdentity(op) ==
    CASE op = "generate" -> "hexists" [] op = "store" -> "private"
      [] op = "consume" -> "hget" [] op = "sign" -> "publicKey"

\* The row is not looked at.
HasIdentityNever == FALSE

HasIdentity == identity.public # 0 /\ identity.private # 0 /\ identity.loads

(***************************************************************************)
(* _load_or_create_identity_key_pair lines 42-49: without a pair, and with *)
(* one that does not load, a new one is created.                           *)
(***************************************************************************)
LoadIdentity(r) ==
    /\ req[r].pc = "load"
    /\ req' = [req EXCEPT ![r].pc = IF HasIdentity THEN AfterIdentity(req[r].op) ELSE "create",
                          ![r].me = IF HasIdentity THEN identity.private ELSE 0]
    /\ Note(<<"identity", 0>>, ~HasIdentity /\ \E q \in Requests : req[q].pc = "create")
    /\ UNCHANGED <<identity, keyVars, made>>

(***************************************************************************)
(* Lines 52-61: a new pair goes into both columns in one commit, over what *)
(* another request, or upload_identity_key, has put there since line 42.   *)
(***************************************************************************)
CreateIdentity(r) ==
    /\ req[r].pc = "create" /\ made < MaxKeys
    /\ made' = made + 1
    /\ identity' = [public |-> made', private |-> made', loads |-> TRUE]
    /\ req' = [req EXCEPT ![r].pc = AfterIdentity(req[r].op), ![r].me = made']
    /\ UNCHANGED <<keyVars, excuse>>

(***************************************************************************)
(* upload_identity_key: the public column alone.  Only the base64 is       *)
(* checked, so ok says whether a key can be made of what it stands for.    *)
(***************************************************************************)
upload_identity_key(ok) ==
    /\ made < MaxKeys
    /\ made' = made + 1
    /\ identity' = [identity EXCEPT !.public = made', !.loads = ok]
    /\ Note(<<"identity", identity.private>>, ~ok /\ identity.private # 0)
    /\ UNCHANGED <<keyVars, req>>

-----------------------------------------------------------------------------
(***************************************************************************)
(* generate_pre_keys lines 80-83: an identifier that is not listed.        *)
(***************************************************************************)
ChooseId(r, i) ==
    /\ req[r].pc = "hexists" /\ public[i] = 0
    /\ req' = [req EXCEPT ![r].pc = "private", ![r].id = i]
    /\ UNCHANGED <<identity, keyVars, made, excuse>>

\* The public half is listed first.
StorePrivateLast(r) ==
    /\ req[r].pc = "private" /\ made < MaxKeys
    /\ made' = made + 1
    /\ public' = [public EXCEPT ![req[r].id] = made']
    /\ req' = [req EXCEPT ![r].pc = "public", ![r].key = made']
    /\ Note(<<"id", req[r].id>>, OthersOn(r, req[r].id, Writers \cup {"consume"}))
    /\ UNCHANGED <<identity, private, signed, handed>>

(***************************************************************************)
(* generate_pre_keys lines 86-96 and store_pre_key lines 165-174: a new    *)
(* private key, with a life of 30 days.                                    *)
(***************************************************************************)
StorePrivate(r) ==
    /\ req[r].pc = "private" /\ made < MaxKeys
    /\ made' = made + 1
    /\ private' = [private EXCEPT ![req[r].id] = made']
    /\ req' = [req EXCEPT ![r].pc = "public", ![r].key = made']
    /\ Note(<<"id", req[r].id>>, OthersOn(r, req[r].id, Writers \cup {"consume"}))
    /\ UNCHANGED <<identity, public, signed, handed>>

(***************************************************************************)
(* generate_pre_keys lines 99-104: the public half of that key;            *)
(* store_pre_key lines 177-181: the key of the client, which has nothing   *)
(* to do with it.                                                          *)
(***************************************************************************)
ListPublic(r) ==
    /\ req[r].pc = "public"
    /\ IF req[r].op = "generate"
       THEN public' = [public EXCEPT ![req[r].id] = req[r].key] /\ UNCHANGED made
       ELSE /\ made < MaxKeys /\ made' = made + 1
            /\ public' = [public EXCEPT ![req[r].id] = made']
    /\ Note(<<"id", req[r].id>>, OthersOn(r, req[r].id, Writers \cup {"consume"}))
    /\ End(r)
    /\ UNCHANGED <<identity, private, signed, handed>>

(***************************************************************************)
(* consume_pre_key lines 192-198: HGET, nothing to do without a key.       *)
(***************************************************************************)
ReadPrivate(r) ==
    LET k == private[req[r].id]
    IN /\ req[r].pc = "hget"
       /\ IF k = 0 THEN End(r) /\ UNCHANGED excuse
          ELSE /\ req' = [req EXCEPT ![r].pc = "hdel", ![r].key = k]
               /\ Note(<<"key", k>>, \E q \in Requests : req[q].pc = "hdel" /\ req[q].key = k)
       /\ UNCHANGED <<identity, keyVars, made>>

\* The private half is left to line 207.
RemoveKeyPublicOnly(r) ==
    /\ req[r].pc = "hdel"
    /\ public' = [public EXCEPT ![req[r].id] = 0]
    /\ Goto(r, "del")
    /\ Note(<<"id", req[r].id>>, OthersOn(r, req[r].id, Writers))
    /\ UNCHANGED <<identity, private, signed, made, handed>>

(***************************************************************************)
(* Lines 201-204: both halves go in one pipeline.                          *)
(***************************************************************************)
RemoveKey(r) ==
    /\ req[r].pc = "hdel"
    /\ private' = [private EXCEPT ![req[r].id] = 0]
    /\ public' = [public EXCEPT ![req[r].id] = 0]
    /\ Goto(r, "del")
    /\ Note(<<"id", req[r].id>>, OthersOn(r, req[r].id, Writers))
    /\ UNCHANGED <<identity, signed, made, handed>>

(***************************************************************************)
(* Lines 207-211: DEL of the private hash, whoever has filled it since,    *)
(* and the key is returned.                                                *)
(***************************************************************************)
RemoveHash(r) ==
    /\ req[r].pc = "del"
    /\ private' = [private EXCEPT ![req[r].id] = 0]
    /\ handed' = [handed EXCEPT ![req[r].key] = @ + 1]
    /\ Note(<<"id", req[r].id>>, private[req[r].id] # 0)
    /\ End(r)
    /\ UNCHANGED <<identity, public, signed, made>>

\* The private half of a pre-key expires; the list has no such limit.
ExpirePrivate(i) ==
    /\ private[i] # 0
    /\ private' = [private EXCEPT ![i] = 0]
    /\ excuse' = excuse \cup {<<"id", i>>}
    /\ UNCHANGED <<identity, public, signed, req, made, handed>>

-----------------------------------------------------------------------------
(***************************************************************************)
(* upload_signed_prekey: the key and its signature come from the client.   *)
(***************************************************************************)
upload_signed_prekey(r) == Arrive(r, "upload", 0, "publicKey")

(***************************************************************************)
(* The first HSET of upload_signed_prekey, or of generate_signed_pre_key,  *)
(* whose key is signed with the identity the service holds.                *)
(***************************************************************************)
PutSignedKey(r) ==
    /\ req[r].pc = "publicKey" /\ made < MaxKeys
    /\ made' = made + 1
    /\ signed' = [signed EXCEPT !.publicKey = made']
    /\ req' = [req EXCEPT ![r].pc = "signature", ![r].key = made']
    /\ Note(<<"signed", 0>>, Others(r, Signers))
    /\ UNCHANGED <<identity, private, public, handed>>

\* The signature of the first key is kept.
PutSignatureOnce(r) ==
    /\ req[r].pc = "signature"
    /\ signed' = [signed EXCEPT !.signature =
                    IF @ # NoSig THEN @ ELSE [of |-> req[r].key, by |-> req[r].me]]
    /\ Note(<<"signed", 0>>, Others(r, Signers \cup {"get"}))
    /\ End(r)
    /\ UNCHANGED <<identity, private, public, made, handed>>

(***************************************************************************)
(* The second HSET.                                                        *)
(***************************************************************************)
PutSignature(r) ==
    /\ req[r].pc = "signature"
    /\ signed' = [signed EXCEPT !.signature = [of |-> req[r].key, by |-> req[r].me]]
    /\ Note(<<"signed", 0>>, Others(r, Signers \cup {"get"}))
    /\ End(r)
    /\ UNCHANGED <<identity, private, public, made, handed>>

\* 30 days after the last EXPIRE both fields go together, also between the
\* HSETs of a writer, which renews their life only after the second.
ExpireSigned ==
    /\ signed.publicKey # 0 \/ signed.signature # NoSig
    /\ signed' = [publicKey |-> 0, signature |-> NoSig]
    /\ UNCHANGED <<identity, private, public, req, made, handed, excuse>>

(***************************************************************************)
(* get_signed_prekey: two HGETs, then the answer.                          *)
(***************************************************************************)
GetSignedKey(r) ==
    /\ req[r].pc = "getKey"
    /\ req' = [req EXCEPT ![r].pc = "getSig", ![r].key = signed.publicKey]
    /\ Note(<<"signed", 0>>, Others(r, Signers))
    /\ UNCHANGED <<identity, keyVars, made>>

GetSignature(r) ==
    /\ req[r].pc = "getSig"
    /\ IF req[r].key = 0 \/ signed.signature = NoSig THEN End(r)
       ELSE req' = [req EXCEPT ![r].pc = "reply", ![r].sig = signed.signature]
    /\ UNCHANGED <<identity, keyVars, made, excuse>>

Reply(r) ==
    /\ req[r].pc = "reply"
    /\ End(r)
    /\ UNCHANGED <<identity, keyVars, made, excuse>>

\* A worker dies; between the two HSETs it leaves an old signature behind.
Crash(r) ==
    /\ req[r].pc # "free"
    /\ End(r)
    /\ Note(<<"signed", 0>>, req[r].pc = "signature")
    /\ UNCHANGED <<identity, keyVars, made>>

KeysNext ==
    \/ \E r \in Requests :
         \/ generate_pre_keys(r) \/ generate_signed_pre_key(r) \/ upload_signed_prekey(r)
         \/ get_signed_prekey(r)
         \/ \E i \in Ids : upload_prekey(r, i) \/ consume_pre_key(r, i) \/ ChooseId(r, i)
         \/ LoadIdentity(r) \/ CreateIdentity(r) \/ StorePrivate(r) \/ ListPublic(r)
         \/ ReadPrivate(r) \/ RemoveKey(r) \/ RemoveHash(r)
         \/ PutSignedKey(r) \/ PutSignature(r)
         \/ GetSignedKey(r) \/ GetSignature(r) \/ Reply(r) \/ Crash(r)
    \/ \E i \in Ids : ExpirePrivate(i)
    \/ \E ok \in BOOLEAN : upload_identity_key(ok)
    \/ ExpireSigned

KeysSpec == KeysInit /\ [][KeysNext]_directoryVars

-----------------------------------------------------------------------------
(***************************************************************************)
(* "for one-time use" (encryption_service.py:188): a private pre-key is    *)
(* handed out twice only if a second HGET came between the HGET and the    *)
(* pipeline of the first consume_pre_key.                                  *)
(***************************************************************************)
HandedOutOnce == \A k \in Keys \ {0} : handed[k] <= 1 \/ <<"key", k>> \in excuse

(***************************************************************************)
(* A listed pre-key has its private half, unless that expired, or requests *)
(* that store or consume the same identifier overlapped.                   *)
(***************************************************************************)
ListedHasPrivate ==
    \A i \in Ids : public[i] # 0 => private[i] # 0 \/ <<"id", i>> \in excuse

(***************************************************************************)
(* The key and the signature get_signed_prekey answers belong together,    *)
(* unless writers overlapped each other or the reader, or one died between *)
(* its two HSETs.                                                          *)
(***************************************************************************)
SignedUntorn ==
    \A r \in Requests : req[r].pc = "reply" => req[r].sig.of = req[r].key \/ <<"signed", 0>> \in excuse

(***************************************************************************)
(* The identity a service signs with is the one the database keeps as long *)
(* as it works, also while other services load or create theirs and the    *)
(* client uploads public keys, unless                                      *)
(*   - a service found no usable pair while another one was already        *)
(*     between finding none and committing its own, or                     *)
(*   - a public key was uploaded next to this identity that does not load, *)
(*     so that the next service replaces both halves (lines 48-59).        *)
(***************************************************************************)
IdentityStable ==
    \A r \in Requests : req[r].me # 0 =>
        \/ req[r].me = identity.private
        \/ <<"identity", 0>> \in excuse \/ <<"identity", req[r].me>> \in excuse
=============================================================================
