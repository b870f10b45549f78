----------------------------- MODULE ConfigFile -----------------------------
(***************************************************************************)
(* A context that is configured by calls and by a configuration file       *)
(* (scf/policy/config.cpp, common/utils/parse_config.cpp).  The file is    *)
(* read as a whole, then its parts are applied one after the other to the  *)
(* TLS settings of module PolicyConfig and to the certificates and keys of *)
(* module Credentials; any part may fail.                                  *)
(***************************************************************************)
EXTENDS Credentials

CONSTANTS
    Confs,          \* the configuration files
    Texts4Files,    \* what the application puts into file contexts
    VersionNames,   \* the versions it asks for, by name
    Tmp             \* the file context that the code makes for itself

\* What stands in a file is text: a certificate has the name of a type, known or
\* not, and certificates and keys are where their paths say.
ASSUME ConfsAssumption ==
    /\ Tmp \in Files
    /\ \A conf \in Confs :
         /\ conf.certs \in Seq([certType : STRING, text : Texts])
         /\ conf.privKey = None \/ conf.privKey.text \in Texts

VARIABLES
    ctx,            \* the SCF_PolicyCtx of module PolicyConfig
    last            \* the file of a SCF_SetConfigFile that has just succeeded, or None

vars == <<world, ctx, last>>

Policy == INSTANCE PolicyConfig WITH
    Objs <- {}, VerifyModes <- {}, Bounds <- {}, Forbids <- {}, Suites <- {}, Careful <- TRUE,
    obj <- <<>>, policyOk <- TRUE, crashed <- "no"

MAX_FORBIN_VERSION_LENGTH == 5
MAX_TLS_CIPHER_SUITES_LENGTH == 20

-----------------------------------------------------------------------------
(* Parsing.  A member of the JSON document is None when it is missing; the *)
(* lists are sequences.                                                    *)

\* Both bounds and the list must be there, with names the table has.
ParseTLSVersion(v) ==
    /\ {v.min, v.max} \subseteq Policy!Mapped
    /\ Len(v.forbid) <= MAX_FORBIN_VERSION_LENGTH
    /\ \A i \in DOMAIN v.forbid : v.forbid[i] \in Policy!Mapped

ParseTLSCiphersuites(suites) ==
    /\ Len(suites) \in 1..MAX_TLS_CIPHER_SUITES_LENGTH
    /\ \A i \in DOMAIN suites : suites[i] \in Policy!NamedSuites

\* SCF_CheckFilePathAndStat is asked of every path and may refuse it.
ParseCertsJson(certs) == \A i \in DOMAIN certs : certs[i].certType \in CertTypes

\* Everything but the answers about paths.  A private key always comes with
\* its keyAuth.
ParseConfig(conf) ==
    /\ conf.version # None => ParseTLSVersion(conf.version)
    /\ conf.suites # None => ParseTLSCiphersuites(conf.suites)
    /\ ParseCertsJson(conf.certs)

-----------------------------------------------------------------------------
(* Applying.  A result is a context, a world and an outcome.               *)

Yes(c, w) == {[c |-> c, w |-> w, ok |-> TRUE]}
No(c, w) == {[c |-> c, w |-> w, ok |-> FALSE]}
AndThen(results, Rest(_, _)) == UNION {IF r.ok THEN Rest(r.c, r.w) ELSE {r} : r \in results}

\* Results of the other two modules as results of this one.
OnContext(results, w) == {[c |-> r.c, w |-> w, ok |-> r.ok] : r \in results}
OnWorld(c, results) == {[c |-> c, w |-> r.w, ok |-> r.ok] : r \in results}

ToSet(s) == {s[i] : i \in DOMAIN s}

SetProtocolVersion4PolicyCtx(c, w, v) ==
    IF v = None THEN Yes(c, w)
    ELSE IF ~Policy!VersionAllowed(v.min, v.max) THEN No(c, w)
    ELSE OnContext(Policy!SetProtocolVersion(c, v.min, v.max, ToSet(v.forbid)), w)

SetCipherSuites4PolicyCtx(c, w, suites) ==
    IF suites = None THEN Yes(c, w)
    ELSE OnContext(Policy!SetCipherSuites(c, ToSet(suites)), w)

SetTLS(c, w, conf) ==
    AndThen(SetProtocolVersion4PolicyCtx(c, w, conf.version),
            LAMBDA c1, w1 : SetCipherSuites4PolicyCtx(c1, w1, conf.suites))

\* The temporary file context and the string for the path; and their release
\* whatever came out of the use of them.
CreateAndInitializeFileCtx(w) ==
    UNION {IF r.ok THEN Fail(Release(FileCtxFree(r.w, Tmp))) \cup Ok(Acquire(r.w)) ELSE Fail(w)
           : r \in FileCtxNew(Acquire(w), Tmp)}

CleanResource(results) ==
    {[r EXCEPT !.w = Release(Release(FileCtxFree(@, Tmp)))] : r \in results}

AddCertInner(w, cert) ==
    Then(FileCtxSetBuf(w, Tmp, [storeType |-> "FILE_PATH", text |-> cert.text]),
         LAMBDA x : AddCert(x, x.file[Tmp].buf, cert.certType))

AddCertAt(certs, i, results) ==
    UNION {IF r.ok THEN Then(CreateAndInitializeFileCtx(r.w),
                             LAMBDA x : CleanResource(AddCertInner(x, certs[i])))
           ELSE {r} : r \in results}

\* The certificates one after the other, up to the first that fails.
AddCert2PolicyCtx(w, certs) ==
    LET upTo[i \in 0..Len(certs)] ==
            IF i = 0 THEN Ok(w) ELSE AddCertAt(certs, i, upTo[i - 1])
    IN upTo[Len(certs)]

\* std::fill of keyAuth.storeBuf, if there is anything in it.
FillKeyAuth(w) == [w EXCEPT !.keyAuth = IF @ = "empty" THEN @ ELSE "zeros"]

\* Only an encrypted password is accepted.  A refusal before FileCtxSetPwd
\* leaves keyAuth to the caller.
SetFileCtxPassword(w, auth) ==
    IF auth.storeBuf = None \/ ~auth.isCipher THEN Fail(w)
    ELSE {IF r.ok THEN r ELSE [r EXCEPT !.w = FillKeyAuth(@)] : r \in FileCtxSetPwd(w, Tmp, TRUE)}

SetKeyAndPwd(w, privKey) ==
    Then(FileCtxSetBuf(w, Tmp, [storeType |-> "FILE_PATH", text |-> privKey.text]),
         LAMBDA x : Then(SetFileCtxPassword(x, privKey.auth), LAMBDA y : SetKey(y, Tmp)))

\* keyAuth is filled when the key has been set.
SetPrivKeyAndPwd4Ctx(w, privKey) ==
    IF privKey = None THEN Ok(w)
    ELSE Then(Then(CreateAndInitializeFileCtx(w),
                   LAMBDA x : CleanResource(SetKeyAndPwd(x, privKey))),
              LAMBDA y : Ok(FillKeyAuth(y)))

SetCertAndKey(c, w, conf) ==
    OnWorld(c, Then(AddCert2PolicyCtx(w, conf.certs), LAMBDA x : SetPrivKeyAndPwd4Ctx(x, conf.privKey)))

\* Mutant: a Config that could not be applied is destroyed as it is.
KeepConfig(w) == w

\* After an error keyAuth may still have its content.
CleanConfig(w) == FillKeyAuth(w)

\* The Config that the parser fills has a copy of keyAuth, the last that it reads.
ParsedInto(w, conf) ==
    [w EXCEPT !.keyAuth = IF conf.privKey = None \/ conf.privKey.auth.storeBuf = None
                          THEN "empty" ELSE "key_authentication"]

\* The Config goes out of scope.
DestroyConfig(w) == [Delete(w, w.keyAuth) EXCEPT !.keyAuth = "empty"]

\* Mutant: the TLS settings are applied last and their errors are lost.
SetConfigIgnoresTLS(c, w, conf) ==
    UNION {SetCertAndKey(r.c, r.w, conf) : r \in SetTLS(c, w, conf)}

\* The file is applied in this order.
SetConfig(c, w, conf) ==
    AndThen(SetTLS(c, w, conf), LAMBDA c1, w1 : SetCertAndKey(c1, w1, conf))

SetConfigFile(conf) ==
    LET applied == IF ParseConfig(conf) THEN SetConfig(ctx, ParsedInto(world, conf), conf) ELSE {}
    IN
    \E r \in No(ctx, world) \cup applied :
        /\ ctx' = r.c
        /\ world' = DestroyConfig(IF r.ok THEN r.w ELSE CleanConfig(r.w))
        /\ last' = IF r.ok THEN conf ELSE None

-----------------------------------------------------------------------------
(* The calls of the application.                                           *)

\* A context whose policy has just been set.
Init ==
    /\ world = EmptyWorld
    /\ \E mode \in Policy!PolicyModes :
         LET new == [role |-> "SERVER", policyMode |-> mode, verifyMode |-> {"DEFAULT"},
                     isSetRole |-> FALSE, find |-> FALSE, use |-> FALSE, ssl |-> None]
         IN \E r \in Policy!InitPolicyByMode(new) :
              /\ r.ok
              /\ \E v \in Policy!SetVerifyMode(r.c, Policy!PassedVerifyMode({"DEFAULT"})) : ctx = v.c
    /\ last = None

\* A call ends with one of these results.
Call(results) ==
    /\ \E r \in results : world' = r.w
    /\ last' = None
    /\ UNCHANGED ctx

FileCall(f) ==
    \/ ~world.file[f].made /\ Call(FileCtxNew(world, f))
    \/ /\ world.file[f].made
       /\ \/ Call(Ok(FileCtxFree(world, f)))
          \/ \E buf \in Buffers : buf.text \in Texts4Files /\ Call(FileCtxSetBuf(world, f, buf))
          \/ \E isCipher \in BOOLEAN : Call(FileCtxSetPwd(world, f, isCipher))
          \/ \E type \in CertTypes : Call(AddCert(world, world.file[f].buf, type))
          \/ Call(SetKey(world, f))

SessionCall(s) ==
    \/ /\ ~world.session[s].made
       /\ Call(Ok([world EXCEPT !.session[s].made = TRUE]))
    \/ /\ world.session[s].made
       /\ \/ Call(Ok([world EXCEPT !.session[s] = NoSession]))
          \/ \E isCipher \in BOOLEAN : Call(SessionSetMasterKey(world, s, isCipher))
          \/ Call(SessionSetCipher(world, s))
          \/ \E v \in VersionNames : Call(SessionSetProtocolVersion(world, s, v))
          \/ world.buffers = 0 /\ Call(SessionGetProtocolVersion(world, s))

Next ==
    \/ \E conf \in Confs : SetConfigFile(conf)
    \/ \E f \in Files \ {Tmp} : FileCall(f)
    \/ \E s \in Sessions : SessionCall(s)
    \/ world.buffers > 0 /\ Call(Ok(FreeBuffer(world)))

Spec == Init /\ [][Next]_vars

-----------------------------------------------------------------------------
(* Properties.                                                             *)

Stores ==
    [ca : SUBSET Texts, crlCheck : BOOLEAN, crl : SUBSET Texts, ee : Certs \cup {None}, key : BOOLEAN,
     extra : UNION {[1..n -> {0, 1}] : n \in 0..MaxChain},
     userdata : Files \cup {None, Dangling}]

\* Every part of the world has its type.
TypeOK ==
    /\ world.file \in [Files -> [made : BOOLEAN, buf : Buffers \cup {None}, passwd : {"password", None}]]
    /\ world.store \in Stores
    /\ world.session \in [Sessions -> [made : BOOLEAN, version : {None, "TLSv1.2", "TLSv1.3"}]]
    /\ world.buffers \in {0, 1}
    /\ world.freed \subseteq Secrets
    /\ world.readDangling \subseteq {"key", "certificate"}
    /\ last \in Confs \cup {None}

\* A copy of a key, a password or a keyAuth that the library has whole, in a file
\* context, in a vector or in a Config, is cleared before its memory is freed,
\* whichever call frees it and wherever that call fails.  What an external
\* decryption that fails has written is the exception: it is freed as it is.
\* (The JSON document and the buffers of OpenSSL are not followed.)
OwnCopiesCleared == world.freed \subseteq {"unfinished_plaintext"}

\* When a call has returned, everything it made for itself has been released
\* exactly once: nothing leaks and nothing is freed twice, on any error path.
\* The certificates of a chain, which LoadCaChain frees once too often, are not
\* counted here but in ChainCertsAlive.
NothingOutstanding == world.tmp = 0 /\ world.file[Tmp] = NoFile

\* When OpenSSL reads a private key it is never led to a password whose memory
\* has been freed, though the SSL_CTX keeps the pointer after the file context
\* is gone.  (When it reads an encrypted certificate from a file it can be.)
KeyPasswordAlive == "key" \notin world.readDangling

\* Once a CRL has been given to the context as one, certificates are checked
\* against it.
CrlIsChecked == world.store.crl # {} => world.store.crlCheck

\* The certificate that a file asks to use last.
OwnCertTypes == {"EE", "EE_CHAIN"}
IsLastOwnCert(certs, i) ==
    /\ certs[i].certType \in OwnCertTypes
    /\ \A j \in DOMAIN certs : j > i => certs[j].certType \notin OwnCertTypes

\* What a configuration file asks for is in force in the context; of several
\* certificates for the context itself OpenSSL uses the last.
InForce(conf) ==
    /\ conf.version # None =>
         /\ ctx.ssl.min = conf.version.min /\ ctx.ssl.max = conf.version.max
         /\ ToSet(conf.version.forbid) \subseteq ctx.ssl.no
    /\ conf.suites # None => ctx.ssl.suites = ToSet(conf.suites)
    /\ \A i \in DOMAIN conf.certs :
         /\ conf.certs[i].certType = "CA" => conf.certs[i].text \in world.store.ca
         /\ conf.certs[i].certType = "CRL" =>
              conf.certs[i].text \in world.store.crl /\ world.store.crlCheck
         /\ IsLastOwnCert(conf.certs, i) => world.store.ee = conf.certs[i].text
    /\ conf.privKey # None => world.store.key

\* SCF_SetConfigFile returns success only when every part of the file is in
\* force together, although the parts are applied one by one, any of them may
\* fail and one can undo another.  (A failure leaves the parts before it.)
SuccessMeansInForce == last # None => InForce(last)

\* What AddEeChainByBuffer is commented with: the other certificates of the
\* chain are in the chain of the SSL_CTX.
ChainCertsAlive == \A i \in DOMAIN world.store.extra : world.store.extra[i] > 0
=============================================================================
