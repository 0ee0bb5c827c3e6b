------------------------------- MODULE Evidence -------------------------------
(***************************************************************************)
(* The signed evidence and its five verifiers.  Trust records, refusal     *)
(* records, execution intents and audit events are hashed and signed by    *)
(* the configured signer (key files or AWS KMS) under the key id in force; *)
(* a trust record in hybrid mode also carries one signature per algorithm. *)
(* They are verified by the server against the keys it holds, and by the   *)
(* server's offline verifier and the TypeScript and Python SDKs against    *)
(* keys collected from GET /keys/:keyId.                                   *)
(*                                                                         *)
(* A signature value is the key material, the message and the form (raw,   *)
(* or the fixed size commitment of a message over the KMS limit) it was    *)
(* made from: hashes and signatures are taken to be unforgeable.  The      *)
(* deployment is reconfigured, keys are rotated, retired and lost, and a   *)
(* stored row comes to say something else, within budgets.                 *)
(***************************************************************************)
EXTENDS Naturals, Sequences, FiniteSets, SequencesExt

CONSTANTS
    Slot,        \* stored rows
    Payload,     \* contents
    Size,        \* the length of the canonical message of each content
    RawLimit,    \* KMS_RAW_MESSAGE_LIMIT_BYTES
    KindsOf,     \* the kinds of evidence each slot may hold
    None,        \* nothing stored, no key, no chain, no schemaVersion
    MaxReconfigs, \* bound on reconfigurations and key losses
    MaxAlters    \* bound on alterations of stored rows

ASSUME EvidenceAssumption ==
    /\ RawLimit \in Nat /\ Size \in [Payload -> Nat]
    /\ KindsOf \in [Slot -> SUBSET {"record", "refusal", "intent", "event"}]
    /\ MaxReconfigs \in Nat /\ MaxAlters \in Nat
    /\ None \notin Payload \cup Slot

VARIABLES
    config,      \* what loadConfig() answers, and PARMANA_VERIFICATION_KEY_ID
    priv, pub,   \* the key directory: ids with a private, a public key file
    row,         \* the stored evidence
    collected,   \* a third party's map from key id to public key
    last,        \* the answer given by the verification just made
    reconfigs, alters,
    \* History: the rows as they were produced.
    issued

evidenceVars == <<config, priv, pub, row, collected, last, reconfigs, alters, issued>>
-----------------------------------------------------------------------------
KeyId == {"default", "rotated", "secondary"}
Algorithms == {"ed25519", "dilithium3"}
AlgorithmOf(k) == IF k = "secondary" THEN "dilithium3" ELSE "ed25519"

(* Key material: one key pair per id in the key directory, and another one *)
(* under the same id as an alias in KMS, which holds Ed25519 keys only.    *)
File(k) == [store |-> "file", key |-> k]
Kms(k)  == [store |-> "kms", key |-> k]
KmsKeys == {"default", "rotated"}
Material == {File(k) : k \in KeyId} \cup {Kms(k) : k \in KmsKeys}

ASSUME MaterialAssumption == None \notin Material

Config == [provider : {"local", "aws-kms"}, mode : {"single", "hybrid"},
           secondary : BOOLEAN, require : BOOLEAN, keyId : KmsKeys]

(* Signing with hybrid mode and no secondary provider throws, so such a    *)
(* deployment produces no record; it is not a configuration to run in.     *)
Deployable(c) == c.mode = "hybrid" => c.secondary

(* The public key the configured Signer answers for an id, or None where   *)
(* getPublicKey throws.                                                    *)
SignerPublicKey(k) ==
    CASE config.provider = "aws-kms" -> IF k \in KmsKeys THEN Kms(k) ELSE None
      [] OTHER                       -> IF k \in pub THEN File(k) ELSE None

SignerHasKey(k) ==
    IF config.provider = "aws-kms" THEN k \in KmsKeys ELSE k \in priv
-----------------------------------------------------------------------------
(* The messages.  A trust record's canonical view is its body, in which    *)
(* the execution carries its own chain signature; the hybrid view adds     *)
(* schemaVersion.  hash, verifications, receipts and the signatures        *)
(* themselves are outside every view.                                      *)
CanonicalRecord(r) == [of |-> r.kind, body |-> r.body, ver |-> None]
HybridCanonicalRecord(r, version) ==
    [of |-> r.kind, body |-> r.body, ver |-> version]
CanonicalChainEntry(body) ==
    [of |-> "chain", body |-> [body EXCEPT !.chain = None], ver |-> None]

MessageLength(m) == Size[m.body.doc] + (IF m.ver = None THEN 0 ELSE 1)

RequiresCommitment_AtLimit(m) == MessageLength(m) >= RawLimit
RequiresCommitment(m) == MessageLength(m) > RawLimit

(* KmsSigner.sign and LocalFileSigner.sign. *)
KmsSign(k, m) ==
    [key |-> Kms(k), msg |-> m,
     form |-> IF RequiresCommitment(m) THEN "commitment" ELSE "raw"]
FileSign(k, m) == [key |-> File(k), msg |-> m, form |-> "raw"]
SignWith(k, m) ==
    IF config.provider = "aws-kms" THEN KmsSign(k, m) ELSE FileSign(k, m)

(* SignatureProvider.verify: raw, or the commitment for a message over the *)
(* limit, which only Ed25519 knows of.                                     *)
ProviderVerifies(algorithm, m, value, key) ==
    /\ value.key = key /\ value.msg = m
    /\ \/ value.form = "raw"
       \/ value.form = "commitment" /\ algorithm = "ed25519" /\ RequiresCommitment(m)
-----------------------------------------------------------------------------
(* Producing evidence. *)

Entry(k, m) == [algorithm |-> AlgorithmOf(k), key |-> k, value |-> FileSign(k, m)]

(* ExecutionChainCrypto.chain: always under the default key id. *)
Chain(body) == [key |-> "default", value |-> SignWith("default", CanonicalChainEntry(body))]

Draft(kind, doc) ==
    LET bare == [doc |-> doc, chain |-> None]
    IN  [kind |-> kind,
         body |-> IF kind = "record" THEN [bare EXCEPT !.chain = Chain(bare)] ELSE bare,
         hash |-> None, sig |-> None, entries |-> <<>>, ver |-> None]

(* sign(): the signer's value under the id in force, labelled with the     *)
(* configured algorithm; an audit event has no hash.                       *)
Signed(r) ==
    [r EXCEPT !.hash = IF r.kind = "event" THEN None ELSE CanonicalRecord(r),
              !.sig = [algorithm |-> "ed25519", key |-> config.keyId,
                       value |-> SignWith(config.keyId, CanonicalRecord(r))]]

(* signHybrid(): both entries from the key directory, whatever the signer. *)
SignHybrid(r) ==
    [r EXCEPT !.ver = 2,
              !.entries = <<Entry(config.keyId, HybridCanonicalRecord(r, 2)),
                            Entry("secondary", HybridCanonicalRecord(r, 2))>>]

IsHybrid(kind) == kind = "record" /\ config.mode = "hybrid"

(* BusinessTrustRecordBuilder.build and its siblings, with the save.  A    *)
(* missing key throws before anything is stored.                           *)
Produce(s) ==
    /\ row[s] = None
    /\ SignerHasKey(config.keyId)
    /\ \E kind \in KindsOf[s], doc \in Payload :
        /\ kind = "record" => SignerHasKey("default")
        /\ IsHybrid(kind) => {config.keyId, "secondary"} \subseteq priv
        /\ LET done == Signed(Draft(kind, doc))
               r    == IF IsHybrid(kind) THEN SignHybrid(done) ELSE done
           IN  /\ row' = [row EXCEPT ![s] = r]
               /\ issued' = issued \cup {r}
    /\ last' = None
    /\ UNCHANGED <<config, priv, pub, collected, reconfigs, alters>>
-----------------------------------------------------------------------------
(* The shape of stored evidence.  The chain signature inside a body signs  *)
(* the same body without it.                                               *)
Kind == {"record", "refusal", "intent", "event"}
ValueOf(messages) == [key : Material, msg : messages, form : {"raw", "commitment"}]
ChainView == [of : {"chain"}, body : [doc : Payload, chain : {None}], ver : {None}]
Body == [doc : Payload, chain : [key : {"default"}, value : ValueOf(ChainView)] \cup {None}]
View == [of : Kind, body : Body, ver : Nat \cup {None}]
Signature == [algorithm : Algorithms, key : KeyId, value : ValueOf(View)]
Row == [kind : Kind, body : Body, hash : View \cup {None}, sig : Signature,
        entries : Seq(Signature), ver : Nat \cup {None}]

TypeOK ==
    /\ config \in Config /\ priv \subseteq KeyId /\ pub \subseteq KeyId
    /\ row \in [Slot -> Row \cup {None}] /\ issued \subseteq Row
    /\ collected \in [KeyId -> Material \cup {None}]
    /\ last \in [by : {"server", "offline", "typescript", "python"}, of : Row,
                 says : {"valid", "invalid", "error"}] \cup {None}
    /\ reconfigs \in 0 .. MaxReconfigs /\ alters \in 0 .. MaxAlters
-----------------------------------------------------------------------------
(* The server's verifiers answer "valid", "invalid" or "error", the last   *)
(* where key infrastructure is missing and the call throws.                *)

EntryOf(r, algorithm) ==
    LET i == CHOOSE j \in DOMAIN r.entries :
                /\ r.entries[j].algorithm = algorithm
                /\ \A k \in 1 .. j - 1 : r.entries[k].algorithm # algorithm
    IN  r.entries[i]

(* HybridSignatureProvider.verify, over the schemaVersion of the row. *)
HybridVerify(r) ==
    LET m == HybridCanonicalRecord(r, IF r.ver = None THEN 2 ELSE r.ver)
    IN  IF ~ config.secondary THEN "error"
        ELSE IF \/ Len(r.entries) # 2
                \/ \E a \in Algorithms : \A i \in DOMAIN r.entries :
                        r.entries[i].algorithm # a
             THEN "invalid"
        ELSE IF \E a \in Algorithms : \/ EntryOf(r, a).key \notin pub
                                      \/ AlgorithmOf(EntryOf(r, a).key) # a
             THEN "error"
        ELSE IF \A a \in Algorithms :
                    ProviderVerifies(a, m, EntryOf(r, a).value, File(EntryOf(r, a).key))
             THEN "valid" ELSE "invalid"

(* VerificationCrypto.verifySignature. *)
VerifySignature_Fallback(r) ==
    IF SignerPublicKey(r.sig.key) = None THEN "error"
    ELSE IF ProviderVerifies("ed25519", CanonicalRecord(r), r.sig.value,
                             SignerPublicKey(r.sig.key))
         THEN "valid" ELSE "invalid"
VerifySignature(r) ==
    LET key    == SignerPublicKey(r.sig.key)
        legacy == ProviderVerifies("ed25519", CanonicalRecord(r), r.sig.value, key)
    IN  IF key = None THEN "error"
        ELSE IF r.entries = <<>>
             THEN IF legacy /\ ~ config.require THEN "valid" ELSE "invalid"
        ELSE IF HybridVerify(r) = "error" THEN "error"
        ELSE IF legacy /\ HybridVerify(r) = "valid" THEN "valid" ELSE "invalid"

(* ExecutionChainCrypto.verifyChain for the one execution of a record. *)
VerifyChain(r) ==
    LET c == r.body.chain
    IN  IF c = None THEN "valid"
        ELSE IF c.value.msg # CanonicalChainEntry(r.body) THEN "invalid"
        ELSE IF SignerPublicKey(c.key) = None THEN "error"
        ELSE IF ProviderVerifies("ed25519", CanonicalChainEntry(r.body), c.value,
                                 SignerPublicKey(c.key))
             THEN "valid" ELSE "invalid"

(* VerificationService.verify: every check runs; one that throws ends it. *)
VerifyRecord(r) ==
    LET signature == VerifySignature(r)
        chain     == VerifyChain(r)
    IN  IF "error" \in {signature, chain} THEN "error"
        ELSE IF /\ r.hash = CanonicalRecord(r)
                /\ signature = "valid" /\ chain = "valid"
             THEN "valid" ELSE "invalid"

(* RefusalCrypto.verify, ExecutionIntentCrypto.verify and, without a hash, *)
(* AuditEventCrypto.verify.                                                *)
VerifyArtifact(r) ==
    LET key == SignerPublicKey(r.sig.key)
    IN  IF r.kind # "event" /\ r.hash # CanonicalRecord(r) THEN "invalid"
        ELSE IF key = None THEN "error"
        ELSE IF ProviderVerifies("ed25519", CanonicalRecord(r), r.sig.value, key)
             THEN "valid" ELSE "invalid"

VerifyOnline(r) == IF r.kind = "record" THEN VerifyRecord(r) ELSE VerifyArtifact(r)
-----------------------------------------------------------------------------
(* The offline verifiers never throw: what they cannot check is invalid. *)

(* verifyOneEntry: the algorithm is the one the entry is labelled with. *)
VerifyOneEntry(e, m) ==
    /\ collected[e.key] # None
    /\ AlgorithmOf(e.key) = e.algorithm
    /\ ProviderVerifies(e.algorithm, m, e.value, collected[e.key])

VerifyHybridEntries(r) ==
    LET m == HybridCanonicalRecord(r, IF r.ver = None THEN 2 ELSE r.ver)
    IN  /\ Len(r.entries) >= 2
        /\ \A i, j \in DOMAIN r.entries :
                r.entries[i].algorithm = r.entries[j].algorithm => i = j
        /\ \A i \in DOMAIN r.entries : VerifyOneEntry(r.entries[i], m)

VerifyOffline(r) ==
    /\ r.hash = CanonicalRecord(r)
    /\ VerifyOneEntry(r.sig, CanonicalRecord(r))
    /\ r.entries # <<>> => VerifyHybridEntries(r)

(* The TypeScript SDK: Ed25519 alone, and no hybrid record. *)
VerifyEd25519(m, value, key) ==
    /\ value.key = key /\ value.msg = m
    /\ value.form = "raw" \/ ~ (MessageLength(m) <= RawLimit)

VerifyTypeScript(r) ==
    /\ r.hash = CanonicalRecord(r)
    /\ r.sig.algorithm = "ed25519" /\ collected[r.sig.key] # None
    /\ AlgorithmOf(r.sig.key) = "ed25519"
    /\ VerifyEd25519(CanonicalRecord(r), r.sig.value, collected[r.sig.key])
    /\ r.entries = <<>>

(* The Python SDK, which has its own commitment rule and field list. *)
VerifyEd25519WithCommitment(m, value, key) ==
    /\ value.key = key /\ value.msg = m
    /\ value.form = "commitment" => ~ (MessageLength(m) <= RawLimit)

VerifyPython(r) ==
    /\ r.hash = CanonicalRecord(r)
    /\ r.sig.algorithm = "ed25519" /\ collected[r.sig.key] # None
    /\ AlgorithmOf(r.sig.key) = "ed25519"
    /\ VerifyEd25519WithCommitment(CanonicalRecord(r), r.sig.value, collected[r.sig.key])
    /\ r.entries = <<>>

OfflineKinds == {"record", "intent"}
OfflineAnswer(valid) == IF valid THEN "valid" ELSE "invalid"

Answers(r) ==
    {[by |-> "server", of |-> r, says |-> VerifyOnline(r)]} \cup
    (IF r.kind \notin OfflineKinds THEN {} ELSE
     {[by |-> "offline",    of |-> r, says |-> OfflineAnswer(VerifyOffline(r))],
      [by |-> "typescript", of |-> r, says |-> OfflineAnswer(VerifyTypeScript(r))],
      [by |-> "python",     of |-> r, says |-> OfflineAnswer(VerifyPython(r))]})

(* A verifier is asked about a stored row, or about a copy of it. *)
Verify(s) ==
    /\ row[s] # None /\ last = None
    /\ last' \in Answers(row[s])
    /\ UNCHANGED <<config, priv, pub, row, collected, reconfigs, alters, issued>>
-----------------------------------------------------------------------------
(* The deployment. *)

(* A third party fetches every key a row names from GET /keys/:keyId,      *)
(* which answers 404 without a private key, whatever is public.            *)
KeysNamed(r) == {r.sig.key} \cup {r.entries[i].key : i \in DOMAIN r.entries}
Published(k) == SignerHasKey(k) /\ SignerPublicKey(k) # None
CollectKeys(s) ==
    /\ row[s] # None
    /\ collected' = [k \in KeyId |-> IF k \in KeysNamed(row[s]) /\ Published(k)
                                     THEN SignerPublicKey(k) ELSE collected[k]]
    /\ collected' # collected
    /\ last' = None
    /\ UNCHANGED <<config, priv, pub, row, reconfigs, alters, issued>>

(* A redeployment: another key in force, another signer or another mode.   *)
(* A local one refuses to start without the default key pair.              *)
Redeploy(c) ==
    /\ reconfigs < MaxReconfigs /\ c # config /\ Deployable(c)
    /\ c.provider = "local" => "default" \in priv \cap pub
    /\ config' = c /\ reconfigs' = reconfigs + 1 /\ last' = None
    /\ UNCHANGED <<priv, pub, row, collected, alters, issued>>

(* A key file is deleted: the private half when a key is retired, or the   *)
(* public half too.                                                        *)
RemoveKey(k) ==
    /\ reconfigs < MaxReconfigs /\ k \in pub
    /\ \/ k \in priv /\ priv' = priv \ {k} /\ pub' = pub
       \/ priv' = priv \ {k} /\ pub' = pub \ {k}
    /\ reconfigs' = reconfigs + 1 /\ last' = None
    /\ UNCHANGED <<config, row, collected, alters, issued>>

Stored == {s \in Slot : row[s] # None}

(* What a stored row may come to say: another content, a recomputed hash,  *)
(* the signature of another row, the entries of another of its kind, or    *)
(* both, entries lost or doubled, another label or version.                *)
Altered(r) ==
    {[r EXCEPT !.body.doc = d] : d \in Payload} \cup
    {[r EXCEPT !.body.chain = None]} \cup
    {[r EXCEPT !.hash = CanonicalRecord(r)]} \cup
    (UNION {{[r EXCEPT !.sig = row[o].sig, !.entries = row[p].entries, !.ver = row[p].ver] :
                o \in Stored} : p \in {t \in Stored : row[t].kind = r.kind}}) \cup
    {[r EXCEPT !.entries = <<>>, !.ver = None]} \cup
    (IF r.entries = <<>> THEN {}
     ELSE {[r EXCEPT !.entries = SubSeq(r.entries, 1, 1)],
           [r EXCEPT !.entries = <<r.entries[1], r.entries[1]>>]}) \cup
    {[r EXCEPT !.sig.algorithm = "dilithium3"]} \cup
    {[r EXCEPT !.ver = 1]}

Alter(s) ==
    /\ alters < MaxAlters /\ row[s] # None
    /\ \E r \in Altered(row[s]) \ {row[s]} : row' = [row EXCEPT ![s] = r]
    /\ alters' = alters + 1 /\ last' = None
    /\ UNCHANGED <<config, priv, pub, collected, reconfigs, issued>>
-----------------------------------------------------------------------------
EvidenceInit ==
    /\ config \in {c \in Config : Deployable(c) /\ c.keyId = "default" /\ ~ c.require}
    /\ priv = KeyId /\ pub = KeyId
    /\ row = [s \in Slot |-> None]
    /\ collected = [k \in KeyId |-> None]
    /\ last = None /\ reconfigs = 0 /\ alters = 0 /\ issued = {}

EvidenceNext ==
    \/ \E s \in Slot : Produce(s) \/ Verify(s) \/ CollectKeys(s) \/ Alter(s)
    \/ \E k \in KeyId : RemoveKey(k)
    \/ \E c \in Config : Redeploy(c)

EvidenceSpec == EvidenceInit /\ [][EvidenceNext]_evidenceVars
-----------------------------------------------------------------------------
(* An answer of "valid", from any of the verifiers and whatever happened   *)
(* to the row, means that this deployment signed exactly this content, and *)
(* with both algorithms where the row carries hybrid entries or the server *)
(* requires them (verifySignature, verifyChain, verifyOneEntry and the     *)
(* SDKs' verifySigned).                                                    *)
ValidIsSigned ==
    last # None /\ last.says = "valid" =>
        \E r \in issued :
            /\ r.kind = last.of.kind /\ r.body = last.of.body
            /\ \/ last.of.entries # <<>>
               \/ last.by = "server" /\ config.require /\ r.kind = "record"
               => Len(r.entries) = 2

(* The public keys a verifier holds for a row are the ones it was signed with. *)
KeysKept(by, r) ==
    LET held(k) == IF by = "server" THEN SignerPublicKey(k) ELSE collected[k]
    IN  /\ held(r.sig.key) = r.sig.value.key
        /\ by = "server" /\ r.body.chain # None =>
                held(r.body.chain.key) = r.body.chain.value.key
        /\ \A i \in DOMAIN r.entries :
                IF by = "server" THEN r.entries[i].key \in pub
                ELSE held(r.entries[i].key) = r.entries[i].value.key

(* The cases the code excludes: a requirement newer than the record, the   *)
(* secondary provider unset, and hybrid records in the SDKs.               *)
Supported(by, r) ==
    CASE by = "server"  -> IF r.entries = <<>> THEN r.kind = "record" => ~ config.require
                           ELSE config.secondary
      [] by = "offline" -> TRUE
      [] OTHER          -> r.entries = <<>>

(* Evidence that nobody altered is answered "valid" by every verifier that *)
(* still holds its public keys, after any rotation, change of signer or    *)
(* mode, retirement of a private key, and at every message length around   *)
(* the KMS limit (currentVerificationKeyId, KmsSigner.sign and the three   *)
(* implementations of the commitment rule).                                *)
GenuineVerifies ==
    last # None /\ last.of \in issued /\ KeysKept(last.by, last.of)
                /\ Supported(last.by, last.of) => last.says = "valid"
=============================================================================
