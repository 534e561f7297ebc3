--------------------------- MODULE IdentityManager ---------------------------
(***************************************************************************)
(* The identity manager of the TypeScript SDK (src/manager.ts): a registry *)
(* of DIDs and one of the credentials it has issued.                       *)
(*                                                                         *)
(* Time is counted in days.  A DID document is determined by its DID, so   *)
(* the registry is the set of DIDs that have one.                          *)
(***************************************************************************)
EXTENDS Integers, FiniteSets

CONSTANTS Did,            \* did:solana:identifier
          Foreign,        \* the identifiers of DIDs of other methods, as a
                          \* function to the DIDs of Solana that share them
          MalformedDid,   \* strings that parseDID rejects
          CallerDid,      \* the DIDs that callers create, import and present
          CredentialId, Level, None,
          Year            \* days that a credential is valid

VARIABLES didRegistry, credentialRegistry, handedOut, now

identityVars == <<didRegistry, credentialRegistry, handedOut, now>>

Credential == [id : CredentialId, issuer : Did, subject : Did, level : Level,
               expirationDate : Nat]

(* What a caller may hand to verifyCredential: a credential of this        *)
(* manager or one from elsewhere, whose issuer may be no DID at all.       *)
Presented ==
    handedOut \cup
    {[id |-> "elsewhere", issuer |-> d, subject |-> d, level |-> None,
      expirationDate |-> Year] : d \in CallerDid \cup DOMAIN Foreign \cup MalformedDid}

IdentityInit ==
    /\ didRegistry = {}
    /\ credentialRegistry = [c \in CredentialId |-> None]
    /\ handedOut = {}
    /\ now = 0

(* The registry with a document for a DID.                                 *)
Documented(did) == didRegistry \cup {did}

createDID(did) ==
    /\ didRegistry' = Documented(did)
    /\ UNCHANGED <<credentialRegistry, handedOut, now>>

(* resolveDID finds a document or makes one: it only fails on a string     *)
(* that is no DID.                                                         *)
Resolvable(did) == did \in didRegistry \/ did \in Did \/ did \in DOMAIN Foreign

(* The document that is made is one of Solana, whatever the method was.    *)
resolveDID(did) ==
    didRegistry' = IF did \in DOMAIN Foreign
                   THEN Documented(Foreign[did])
                   ELSE didRegistry \cup ({did} \cap Did)

Issued(c, issuer, subject, level) ==
    [id |-> c, issuer |-> issuer, subject |-> subject, level |-> level,
     expirationDate |-> now + Year]

Fresh == {c \in CredentialId : \A h \in handedOut : h.id # c}

(* The id is a random UUID: one that was never used.                       *)
issueCredential(c, issuer, subject, level) ==
    /\ c \in Fresh
    /\ credentialRegistry' = [credentialRegistry EXCEPT ![c] = Issued(c, issuer, subject, level)]
    /\ handedOut' = handedOut \cup {Issued(c, issuer, subject, level)}
    /\ UNCHANGED now

Expired(credential) == credential.expirationDate < now

(* Whether verifyCredential answers isValid.  Its registry is not asked,   *)
(* and every credential it made has a proof value.                         *)
isValid(credential) == ~Expired(credential) /\ Resolvable(credential.issuer)

(* An expired credential is rejected before its issuer is resolved.        *)
verifyCredential(credential) ==
    /\ IF Expired(credential) THEN UNCHANGED didRegistry
       ELSE resolveDID(credential.issuer)
    /\ UNCHANGED <<credentialRegistry, handedOut, now>>

getCredential(c) == credentialRegistry[c]

getCredentialsForSubject(subject) ==
    {c \in CredentialId : credentialRegistry[c] # None /\ credentialRegistry[c].subject = subject}

(* Answers FALSE, and changes nothing, if the id is not registered.        *)
revokeCredential(c) ==
    /\ credentialRegistry' = [credentialRegistry EXCEPT ![c] = None]
    /\ UNCHANGED <<didRegistry, handedOut, now>>

importDIDs(docs) ==
    /\ didRegistry' = didRegistry \cup docs
    /\ UNCHANGED <<credentialRegistry, handedOut, now>>

clear ==
    /\ didRegistry' = {}
    /\ credentialRegistry' = [c \in CredentialId |-> None]
    /\ UNCHANGED <<handedOut, now>>

=============================================================================
